---- MODULE Spec2Model ----
(***************************************************************************)
(* Model of the notification prioritization engine: the nine-stage        *)
(* evaluate pipeline (classifier.js), the deduplicator and the Redis       *)
(* adapter (redisService.js / deduplicator.js), the fatigue guard, the     *)
(* scorer, the conflict resolver, the rules service, the audit service and *)
(* the deferred scheduler.                                                 *)
(*                                                                         *)
(* Time is in milliseconds since local midnight of day 0.  Optional values *)
(* (null in the source) are the empty tuple <<>>, a present value v is     *)
(* <<v>>.  SHA-256 is taken to be collision free: a fingerprint is the     *)
(* tuple of the fields that are hashed.  A 64-bit hash is the set of its   *)
(* one-bits.                                                               *)
(***************************************************************************)
EXTENDS Integers, Sequences, FiniteSets, TLC

VARIABLES
  clock,          \* wall clock, ms
  connected,      \* redisService.js: connected
  rejecting,      \* the Redis server fails every command of the live client
  kvStr,          \* Redis string keys: set of [key, exp]
  kvZ,            \* Redis sorted sets: set of [key, members, exp]
  cachedRules,    \* ruleService.js: cachedRules
  rulesFile,      \* config/rules.json: <<>> when unreadable, <<list>> otherwise
  auditStore,     \* auditService.js: auditStore (audit_id -> record)
  historyStore,   \* auditService.js: historyStore (user_id -> entries)
  deferredQueue,  \* schedulerService.js: deferredQueue
  delivered,      \* history: the events answered NOW/LATER with Redis up, with the instant
  last,           \* history: the most recent evaluate call and its outcome
  nEvals,         \* evaluate calls made so far
  nEnv,           \* disturbances (time passing, Redis failing) so far
  inflight,       \* evaluate calls that have read the counter and await the AI service
  reloadFailed    \* history: the latest run of the reload timer could not read the file

vars == <<clock, connected, rejecting, kvStr, kvZ, cachedRules, rulesFile, auditStore,
          historyStore, deferredQueue, delivered, last, nEvals, nEnv, inflight,
          reloadFailed>>

-----------------------------------------------------------------------------
(* Bounds of the model *)

MaxEvals == 2
MaxEnv == 1
MaxFileSteps == 3
MaxCalls == 6
MaxInflight == 2
MaxMsgLen == 4
MaxCap == 10
MaxIntervals == 2
MaxQueued == 2
MaxTimer == 3
MaxTwins == 4
MaxSpaced == 3
MaxUserCalls == 3
MaxBurst == 3
MaxSnapshot == 3
MaxCount == 12
MaxLapse == 1
NumAuditIds == 2
RandDen == 2

-----------------------------------------------------------------------------
(* Program constants *)

TTL_TRANSACTIONAL == 600
TTL_PROMO == 86400
NEAR_DUP_WINDOW == 600
HAMMING_THRESHOLD == 5
MinNearDupLen == 10
MinTokenLen == 2
HashBits == 64
CapTotal == 5
CapSource == 2
CapPromo == 1
W1H == 3600
W4H == 14400
MsPerSec == 1000
MsPerMin == 60000
MsPerHour == 3600000
HoursPerDay == 24
DndStartHour == 23
DndEndHour == 8
ShortDeferMin == 15
CriticalScore == 97
FailsafeScore == 90
DndScore == 35
NowThreshold == 60
LaterThreshold == 30
MaxBase == 75
MaxScore == 100
HistoryKeep == 100
AiFloor == 10
AiCeil == 15

NULL == <<>>
Some(x) == <<x>>
IsNull(o) == o = <<>>
Val(o) == o[1]

Max(a, b) == IF a >= b THEN a ELSE b
Min(a, b) == IF a <= b THEN a ELSE b

\* the number NaN, a value apart from every number the program computes with;
\* a comparison with NaN is false
NaN == 0 - 1000000
Ge(a, b) == a # NaN /\ b # NaN /\ a >= b
Lt(a, b) == a # NaN /\ b # NaN /\ a < b

-----------------------------------------------------------------------------
(* Text: messages are sequences of one-character strings.  A message that  *)
(* is not a string (a JSON number sent as "message") is NotAString.        *)

NotAString == <<"<number>">>

UpperCase == {"B", "N", "O", "W"}
WordChars == {"b", "i", "g", "s", "a", "l", "e", "n", "o", "w"} \cup UpperCase
WhiteSpace == {" "}

ToLowerChar(c) ==
  CASE c = "B" -> "b"
    [] c = "N" -> "n"
    [] c = "O" -> "o"
    [] c = "W" -> "w"
    [] OTHER -> c

\* String.prototype.toLowerCase
ToLowerCase(s) == [i \in 1..Len(s) |-> ToLowerChar(s[i])]

\* replace(/\s+/g, ' '): every maximal run of whitespace becomes one space
RECURSIVE CollapseWs(_)
CollapseWs(s) ==
  IF s = <<>> THEN <<>>
  ELSE IF Head(s) \in WhiteSpace
       THEN IF Len(s) > 1 /\ s[2] \in WhiteSpace
            THEN CollapseWs(Tail(s))
            ELSE <<" ">> \o CollapseWs(Tail(s))
       ELSE <<Head(s)>> \o CollapseWs(Tail(s))

RECURSIVE TrimLeft(_)
TrimLeft(s) ==
  IF s # <<>> /\ Head(s) \in WhiteSpace THEN TrimLeft(Tail(s)) ELSE s

RECURSIVE TrimRight(_)
TrimRight(s) ==
  IF s # <<>> /\ s[Len(s)] \in WhiteSpace
  THEN TrimRight(SubSeq(s, 1, Len(s) - 1))
  ELSE s

\* String.prototype.trim
Trim(s) == TrimRight(TrimLeft(s))

\* a faulty variant of NormalizeMessage: the ends are not trimmed
NormalizeMessageUntrimmed(m) == CollapseWs(ToLowerCase(m))

\* deduplicator.js buildFingerprint: the normalized message
NormalizeMessage(m) == Trim(CollapseWs(ToLowerCase(m)))

\* buildFingerprint throws a TypeError when message is truthy and not a string
FingerprintThrows(e) == e.message = NotAString

\* `${user_id}|${event_type}|${msg}|${source || ''}` under SHA-256
\* a faulty variant of buildFingerprint: the user_id is left out of the hash
buildFingerprintNoUser(e) ==
  <<"any", e.event_type, NormalizeMessage(e.message), e.source>>

buildFingerprint(e) ==
  <<e.user_id, e.event_type, NormalizeMessage(e.message), e.source>>

\* split(/\W+/): the maximal runs of word characters, in order
RECURSIVE SplitWords(_, _)
SplitWords(s, cur) ==
  IF s = <<>> THEN (IF cur = <<>> THEN <<>> ELSE <<cur>>)
  ELSE IF Head(s) \in WordChars
       THEN SplitWords(Tail(s), Append(cur, Head(s)))
       ELSE (IF cur = <<>> THEN <<>> ELSE <<cur>>) \o SplitWords(Tail(s), <<>>)

\* text.toLowerCase().split(/\W+/).filter(t => t.length > 2)
Tokens(text) ==
  SelectSeq(SplitWords(ToLowerCase(text), <<>>), LAMBDA t : Len(t) > MinTokenLen)

\* the first 16 hex digits of MD5(token) as the set of its one-bits
Md5Bits(token) ==
  CASE token = <<"b", "i", "g">> ->
         {2, 3, 6, 8, 9, 11, 15, 16, 17, 19, 21, 22, 24, 26, 29, 31, 32, 34, 35,
          36, 37, 38, 40, 41, 42, 47, 48, 53, 54, 59, 60, 62, 63}
    [] token = <<"s", "a", "l", "e">> ->
         {0, 3, 4, 5, 6, 8, 10, 12, 14, 15, 19, 21, 24, 26, 30, 32, 36, 37, 38,
          40, 43, 44, 46, 48, 49, 51, 56, 57, 58, 61, 62, 63}
    [] token = <<"n", "o", "w">> ->
         {1, 5, 7, 8, 10, 11, 13, 15, 16, 19, 21, 23, 24, 25, 26, 29, 32, 33, 35,
          37, 40, 43, 44, 46, 50, 51, 52, 53, 55, 56, 57, 58, 60, 63}
    [] token = <<"o", "o", "o">> ->
         {1, 3, 4, 7, 8, 9, 10, 11, 12, 13, 14, 15, 19, 22, 24, 28, 29, 32, 38, 40,
          42, 43, 44, 46, 47, 50, 52, 55, 56, 57, 58, 59, 60, 61, 62}
    [] token = <<"o", "o", "o", "o">> ->
         {2, 5, 6, 7, 11, 12, 17, 21, 22, 23, 25, 27, 31, 36, 40, 43, 45, 46, 47, 50,
          51, 52, 53, 54, 57, 58, 59, 62, 63}
    [] token = <<"o", "o", "o", "o", "o">> ->
         {0, 1, 2, 10, 11, 12, 14, 18, 19, 21, 22, 23, 24, 25, 27, 28, 30, 31, 35,
          40, 41, 47, 48, 51, 53, 56, 58, 62}

\* deduplicator.js computeSimHash: bit i is set iff v[i] > 0
\* v[i] after the loop over the tokens: +1 for a one-bit, -1 for a zero-bit
BitVotes(tokens, i) ==
  LET ones == Cardinality({j \in 1..Len(tokens) : i \in Md5Bits(tokens[j])})
  IN ones - (Len(tokens) - ones)

SimHashOf(tokens) == {i \in 0..(HashBits - 1) : BitVotes(tokens, i) > 0}

computeSimHash(text) == SimHashOf(Tokens(text))

\* deduplicator.js hammingDistance: the number of differing bits
hammingDistance(a, b) == Cardinality((a \ b) \cup (b \ a))

isPromo(t) == t \in {"promotion", "low_value_promo"}

-----------------------------------------------------------------------------
(* Redis, as seen through redisService.js getRedis().  mode is "ok" for the *)
(* connected client, "stub" for the no-op stub returned while connected is *)
(* false, and "throw" for a connected client whose commands reject.        *)

Live(r, now) == now < r.exp

getRedis(isConnected, rejects) ==
  IF ~isConnected THEN "stub" ELSE IF rejects THEN "throw" ELSE "ok"

\* a faulty variant of redisGet: a key held by Redis is reported found although
\* the command could not be sent
redisGetUnguarded(str, key, now, mode) ==
  \E r \in str : r.key = key /\ Live(r, now)

\* deduplicator.js redisGet: the stub answers null, a rejection is caught
redisGet(str, key, now, mode) ==
  mode = "ok" /\ \E r \in str : r.key = key /\ Live(r, now)

\* redis.set(key, '1', 'EX', ttl)
RedisSet(str, key, ttl, now) ==
  {r \in str : r.key # key} \cup {[key |-> key, exp |-> now + ttl * MsPerSec]}

\* the members of a sorted set that has not expired
ZMembers(z, key, now) ==
  IF \E r \in z : r.key = key /\ Live(r, now)
  THEN (CHOOSE r \in z : r.key = key /\ Live(r, now)).members
  ELSE {}

\* redis.zadd(key, score, member) followed by redis.expire(key, ttl)
ZAddExpire(z, key, score, member, ttl, now) ==
  LET old == ZMembers(z, key, now)
      new == {x \in old : x.m # member} \cup {[m |-> member, s |-> score]}
  IN {r \in z : r.key # key}
       \cup {[key |-> key, members |-> new, exp |-> now + ttl * MsPerSec]}

\* redis.zremrangebyscore(key, '-inf', max)
ZRemRangeByScore(z, key, max, now) ==
  LET kept == {x \in ZMembers(z, key, now) : x.s > max}
  IN IF kept = {} THEN {r \in z : r.key # key}
     ELSE {IF r.key = key THEN [r EXCEPT !.members = kept] ELSE r : r \in z}

\* redis.zcount(key, min, max)
ZCount(z, key, min, max, now) ==
  Cardinality({x \in ZMembers(z, key, now) : min <= x.s /\ x.s <= max})

\* Redis drops a key once its time to live has passed
ExpireKeys(keys, now) == {r \in keys : Live(r, now)}

FpKey(fp) == <<"dedup:fp", fp>>
DedupeKey(k) == <<"dedup:key", k>>
SimKey(e) == <<"sim", e.user_id, e.event_type>>
FreqKey(user, suffix) == <<"freq", user, suffix>>

-----------------------------------------------------------------------------
(* deduplicator.js *)

\* checkNearDuplicate: found iff a stored SimHash is within the threshold
checkNearDuplicate(e, z, now, mode) ==
  IF Len(e.message) < MinNearDupLen THEN FALSE
  ELSE IF mode # "ok" THEN FALSE
  ELSE \E x \in ZMembers(z, SimKey(e), now) :
         hammingDistance(computeSimHash(e.message), x.m) < HAMMING_THRESHOLD

NotDuplicate == [threw |-> FALSE, isDuplicate |-> FALSE, type |-> "NONE"]
Duplicate(type) == [threw |-> FALSE, isDuplicate |-> TRUE, type |-> type]
DedupThrows == [threw |-> TRUE, isDuplicate |-> FALSE, type |-> "NONE"]

\* a faulty variant of checkDuplicate: the content fingerprint is not probed
checkDuplicateKeyOnly(e, str, z, now, mode) ==
  IF ~IsNull(e.dedupe_key) /\ redisGet(str, DedupeKey(Val(e.dedupe_key)), now, mode)
  THEN Duplicate("EXACT_KEY")
  ELSE IF FingerprintThrows(e) THEN DedupThrows
  ELSE IF checkNearDuplicate(e, z, now, mode) THEN Duplicate("NEAR_DUPLICATE")
  ELSE NotDuplicate

\* a variant of checkDuplicate that also sees the calls in flight: the probe
\* and the store made one step
checkDuplicateSeesInflight(e, str, z, now, mode) ==
  IF ~IsNull(e.dedupe_key) /\ redisGet(str, DedupeKey(Val(e.dedupe_key)), now, mode)
  THEN Duplicate("EXACT_KEY")
  ELSE IF FingerprintThrows(e) THEN DedupThrows
  ELSE IF \/ redisGet(str, FpKey(buildFingerprint(e)), now, mode)
          \/ \E q \in inflight : buildFingerprint(q.event) = buildFingerprint(e)
  THEN Duplicate("EXACT_FINGERPRINT")
  ELSE IF checkNearDuplicate(e, z, now, mode) THEN Duplicate("NEAR_DUPLICATE")
  ELSE NotDuplicate

checkDuplicate(e, str, z, now, mode) ==
  IF ~IsNull(e.dedupe_key) /\ redisGet(str, DedupeKey(Val(e.dedupe_key)), now, mode)
  THEN Duplicate("EXACT_KEY")
  ELSE IF FingerprintThrows(e) THEN DedupThrows
  ELSE IF redisGet(str, FpKey(buildFingerprint(e)), now, mode)
  THEN Duplicate("EXACT_FINGERPRINT")
  ELSE IF checkNearDuplicate(e, z, now, mode) THEN Duplicate("NEAR_DUPLICATE")
  ELSE NotDuplicate

FingerprintTtl(e) == IF isPromo(e.event_type) THEN TTL_PROMO ELSE TTL_TRANSACTIONAL

\* the string keys written by storeFingerprint
StoreKeys(e, str, ttl, now) ==
  IF IsNull(e.dedupe_key) THEN RedisSet(str, FpKey(buildFingerprint(e)), ttl, now)
  ELSE RedisSet(RedisSet(str, FpKey(buildFingerprint(e)), ttl, now),
                DedupeKey(Val(e.dedupe_key)), ttl, now)

\* the SimHash entry written by storeFingerprint: zadd, expire, prune
StoreSimHash(e, z, now) ==
  ZRemRangeByScore(ZAddExpire(z, SimKey(e), now, computeSimHash(e.message),
                              NEAR_DUP_WINDOW, now),
                   SimKey(e), now - NEAR_DUP_WINDOW * MsPerSec, now)

\* storeFingerprint, for an event whose fingerprint can be built (line 136
\* is outside the try): the writes are skipped by the stub and given up at
\* the first rejected command
storeFingerprint(e, str, z, now, mode) ==
  IF mode # "ok" THEN [str |-> str, z |-> z]
  ELSE [str |-> StoreKeys(e, str, FingerprintTtl(e), now), z |-> StoreSimHash(e, z, now)]

-----------------------------------------------------------------------------
(* fatigueGuard.js *)

\* a faulty variant of PenaltyOf: the cap is reached only when it is exceeded
PenaltyOfAboveCap(count) ==
  IF count > CapTotal THEN 30
  ELSE IF count * 10 >= 8 * CapTotal THEN 20
  ELSE IF count * 2 >= CapTotal THEN 10
  ELSE IF count >= 2 THEN 5
  ELSE 0

\* a faulty variant of PenaltyFor: the "light usage" row comes before the ratio rows
PenaltyForLightFirst(count, cap) ==
  IF count >= cap THEN 30
  ELSE IF count >= 2 THEN 5
  ELSE IF count * 10 >= 8 * cap THEN 20
  ELSE IF count * 2 >= cap THEN 10
  ELSE 0

\* the penalty curve for CAPS.total = cap: ratio = count / cap, first row that matches
PenaltyFor(count, cap) ==
  IF count >= cap THEN 30
  ELSE IF count * 10 >= 8 * cap THEN 20
  ELSE IF count * 2 >= cap THEN 10
  ELSE IF count >= 2 THEN 5
  ELSE 0

PenaltyOf(count) == PenaltyFor(count, CapTotal)

LevelOf(penalty) ==
  IF penalty = 0 THEN "LOW"
  ELSE IF penalty <= 10 THEN "MEDIUM"
  ELSE IF penalty <= 20 THEN "HIGH"
  ELSE "MAXED"

\* the answer of getFatiguePenalty for a count read from Redis, CAPS.total = cap
FatigueFor(count, cap) ==
  [count |-> count, penalty |-> PenaltyFor(count, cap),
   level |-> LevelOf(PenaltyFor(count, cap))]

\* a faulty variant of Fatigue: the count is read, no penalty follows from it
FatigueNoPenalty(count) == [count |-> count, penalty |-> 0, level |-> "LOW"]

Fatigue(count) ==
  [count |-> count, penalty |-> PenaltyOf(count), level |-> LevelOf(PenaltyOf(count))]

getFatiguePenalty(z, userId, now, mode) ==
  IF mode = "throw" THEN [count |-> 0, penalty |-> 0, level |-> "UNKNOWN"]
  ELSE IF mode = "stub" THEN Fatigue(0)
  ELSE Fatigue(ZCount(z, FreqKey(userId, "total"), now - W1H * MsPerSec, now, now))

\* one counter: zadd, expire, prune
BumpCounter(z, key, member, window, now) ==
  ZRemRangeByScore(ZAddExpire(z, key, now, member, W4H, now),
                   key, now - window * MsPerSec, now)

\* the promo counter, after the total and the per-source counters
PromoCounter(e, z2, member, now) ==
  IF isPromo(e.event_type)
  THEN BumpCounter(z2, FreqKey(e.user_id, "promo"), member, W4H, now)
  ELSE z2

incrementCounter(e, z, now, mode) ==
  IF mode # "ok" THEN z
  ELSE PromoCounter(e,
         BumpCounter(BumpCounter(z, FreqKey(e.user_id, "total"), <<now, e.event_type>>,
                                 W1H, now),
                     FreqKey(e.user_id, e.source), <<now, e.event_type>>, W1H, now),
         <<now, e.event_type>>, now)

-----------------------------------------------------------------------------
(* scorer.js *)

PRIORITY_SCORES(p) ==
  CASE p = "CRITICAL" -> 40 [] p = "HIGH" -> 25 [] p = "MEDIUM" -> 15
    [] p = "LOW" -> 5 [] OTHER -> 10

EVENT_TYPE_SCORES(t) ==
  CASE t = "security_alert" -> 30 [] t = "direct_message" -> 25
    [] t = "payment_alert" -> 28 [] t = "reminder" -> 20
    [] t = "system_alert" -> 18 [] t = "system_update" -> 10
    [] t = "promotion" -> 5 [] t = "low_value_promo" -> 2
    [] t = "digest" -> 3 [] OTHER -> 5

CHANNEL_SCORES(c) ==
  CASE c = "sms" -> 10 [] c = "push" -> 8 [] c = "email" -> 5
    [] c = "in-app" -> 3 [] OTHER -> 3

\* freshnessScore: ageMin = (now - timestamp) / 60000, a real number
freshnessScore(timestamp, now) ==
  IF IsNull(timestamp) THEN 5
  ELSE LET ageMs == now - Val(timestamp)
       IN IF ageMs < 1 * MsPerMin THEN 10
          ELSE IF ageMs < 5 * MsPerMin THEN 8
          ELSE IF ageMs < 15 * MsPerMin THEN 5
          ELSE IF ageMs < 60 * MsPerMin THEN 2
          ELSE 0

\* a faulty variant of computeScore: the priority hint carries no weight
computeScoreNoPriority(e, now) ==
  Min(MaxBase, EVENT_TYPE_SCORES(e.event_type) + CHANNEL_SCORES(e.channel)
                 + freshnessScore(e.timestamp, now))

computeScore(e, now) ==
  Min(MaxBase, PRIORITY_SCORES(e.priority_hint) + EVENT_TYPE_SCORES(e.event_type)
                 + CHANNEL_SCORES(e.channel) + freshnessScore(e.timestamp, now))

\* classifier.js:119: Math.max(0, Math.min(100, NaN)) is NaN
\* a faulty variant of FinalScore: the fatigue penalty is not subtracted
FinalScoreNoPenalty(base, penalty, aiScore) ==
  IF aiScore = NaN THEN NaN ELSE Max(0, Min(MaxScore, base + aiScore))

FinalScore(base, penalty, aiScore) ==
  IF aiScore = NaN THEN NaN ELSE Max(0, Min(MaxScore, base - penalty + aiScore))

-----------------------------------------------------------------------------
(* aiService.js *)

\* what the fetch of AI_SERVICE_URL/score meets: the 200 ms timer aborts it,
\* the service answers with an HTTP error, or it answers a JSON body whose
\* score_adjustment is absent (<<>>), a number, or a value that is no number
\* (NaN under Math.min)
AiTimeout == [kind |-> "timeout"]
AiHttpError == [kind |-> "http"]
AiOk(v) == [kind |-> "ok", score_adjustment |-> v]

\* a faulty variant of ClampAi: the adjustment has no ceiling
ClampAiNoCeiling(v) ==
  IF IsNull(v) THEN 0
  ELSE IF Val(v) = NaN THEN NaN
  ELSE Max(0 - AiFloor, Val(v))

\* Math.max(-10, Math.min(15, data.score_adjustment ?? 0))
ClampAi(v) ==
  IF IsNull(v) THEN 0
  ELSE IF Val(v) = NaN THEN NaN
  ELSE Max(0 - AiFloor, Min(AiCeil, Val(v)))

\* getAiScore: <<>> when it raises, <<n>> when it answers n
getAiScore(resp) == IF resp.kind = "ok" THEN Some(ClampAi(resp.score_adjustment)) ELSE NULL

-----------------------------------------------------------------------------
(* conflictResolver.js *)

isNoisySource(source) ==
  source \in {"marketing-svc", "promo-service", "analytics-alerts", "noisy-svc",
              "bulk-sender"}

Unresolved == [resolved |-> FALSE, decision |-> "NONE", rule |-> 0]

\* a faulty variant of resolveConflict: rule 1 gives way to a score of 60 or more
resolveConflictScoreFirst(e, score, fatigue) ==
  IF e.priority_hint = "HIGH" /\ fatigue.level = "MAXED" /\ ~Ge(score, NowThreshold)
  THEN [resolved |-> TRUE, decision |-> "LATER", rule |-> 1]
  ELSE IF e.priority_hint = "HIGH" /\ fatigue.level = "HIGH" /\ isNoisySource(e.source)
  THEN [resolved |-> TRUE, decision |-> "LATER", rule |-> 2]
  ELSE IF e.priority_hint = "MEDIUM" /\ fatigue.level = "MAXED"
  THEN [resolved |-> TRUE, decision |-> "NEVER", rule |-> 3]
  ELSE IF e.priority_hint = "LOW" /\ Ge(score, NowThreshold) /\ fatigue.level = "MAXED"
  THEN [resolved |-> TRUE, decision |-> "LATER", rule |-> 4]
  ELSE Unresolved

resolveConflict(e, score, fatigue) ==
  IF e.priority_hint = "HIGH" /\ fatigue.level = "MAXED"
  THEN [resolved |-> TRUE, decision |-> "LATER", rule |-> 1]
  ELSE IF e.priority_hint = "HIGH" /\ fatigue.level = "HIGH" /\ isNoisySource(e.source)
  THEN [resolved |-> TRUE, decision |-> "LATER", rule |-> 2]
  ELSE IF e.priority_hint = "MEDIUM" /\ fatigue.level = "MAXED"
  THEN [resolved |-> TRUE, decision |-> "NEVER", rule |-> 3]
  ELSE IF e.priority_hint = "LOW" /\ Ge(score, NowThreshold) /\ fatigue.level = "MAXED"
  THEN [resolved |-> TRUE, decision |-> "LATER", rule |-> 4]
  ELSE Unresolved

-----------------------------------------------------------------------------
(* ruleService.js *)

\* a faulty variant of loadRules: a failed load empties the cache
loadRulesDropping(cache, file) ==
  IF IsNull(file) THEN <<>>
  ELSE SelectSeq(Val(file), LAMBDA r : r.enabled)

\* loadRules: the enabled rules of a readable file, the old cache otherwise
loadRules(cache, file) ==
  IF IsNull(file) THEN cache
  ELSE SelectSeq(Val(file), LAMBDA r : r.enabled)

\* getRules: an empty cache is loaded on the spot
getRules(cache, file) == IF Len(cache) = 0 THEN loadRules(cache, file) ELSE cache

\* !cond: the field is missing or holds a falsy value (the empty string)
CondMatches(cond, key, value) ==
  \/ key \notin DOMAIN cond
  \/ cond[key] = ""
  \/ cond[key] = "*"
  \/ cond[key] = value

matchesCondition(e, cond) ==
  /\ CondMatches(cond, "event_type", e.event_type)
  /\ CondMatches(cond, "channel", e.channel)
  /\ CondMatches(cond, "source", e.source)
  /\ CondMatches(cond, "priority", e.priority_hint)

\* Array.prototype.sort with (b.priority - a.priority): a stable insertion
RECURSIVE InsertByPriority(_, _)
InsertByPriority(r, sorted) ==
  IF sorted = <<>> THEN <<r>>
  ELSE IF Head(sorted).priority >= r.priority
       THEN <<Head(sorted)>> \o InsertByPriority(r, Tail(sorted))
       ELSE <<r>> \o sorted

RECURSIVE SortByPriority(_)
SortByPriority(rs) ==
  IF rs = <<>> THEN <<>>
  ELSE InsertByPriority(rs[Len(rs)], SortByPriority(SubSeq(rs, 1, Len(rs) - 1)))

matchRules(e, rules) ==
  SortByPriority(SelectSeq(rules, LAMBDA r : matchesCondition(e, r.condition)))

\* a faulty variant of FindSuppress: only the matched rule of highest priority counts
FindSuppressTop(matched) ==
  IF matched # <<>> /\ Head(matched).action = "SUPPRESS" THEN Some(Head(matched)) ELSE NULL

\* matched.find(r => r.action === 'SUPPRESS'): the first such rule, if any
FindSuppress(matched) ==
  LET hits == SelectSeq(matched, LAMBDA r : r.action = "SUPPRESS")
  IN IF hits = <<>> THEN NULL ELSE Some(Head(hits))

RuleIds(matched) == [i \in 1..Len(matched) |-> matched[i].rule_id]


-----------------------------------------------------------------------------
(* auditService.js and schedulerService.js *)

\* Map.prototype.set on auditStore
AuditSet(audit, rec) == {r \in audit : r.audit_id # rec.audit_id} \cup {rec}

\* getAuditLog: the record, or null
getAuditLog(audit, auditId) ==
  IF \E r \in audit : r.audit_id = auditId
  THEN Some(CHOOSE r \in audit : r.audit_id = auditId)
  ELSE NULL

HistoryEntry(rec) ==
  [audit_id |-> rec.audit_id, decision |-> rec.decision, event_type |-> rec.event_type,
   score |-> rec.score, created_at |-> rec.created_at]

\* history.unshift(entry); history.slice(0, 100)
HistoryPush(hist, rec) ==
  LET old == IF rec.user_id \in DOMAIN hist THEN hist[rec.user_id] ELSE <<>>
      new == <<HistoryEntry(rec)>> \o old
      cut == SubSeq(new, 1, Min(Len(new), HistoryKeep))
  IN [u \in DOMAIN hist \cup {rec.user_id} |-> IF u = rec.user_id THEN cut ELSE hist[u]]

\* writeAudit never raises
writeAudit(w, rec) ==
  [w EXCEPT !.audit = AuditSet(w.audit, rec), !.hist = HistoryPush(w.hist, rec)]

\* scheduleDeferred: the entry appended to the queue
\* a faulty variant of scheduleDeferred: the entry is due at the time it was queued
scheduleDeferredDueNow(queue, e, scheduleAt, auditId, now) ==
  Append(queue, [event |-> e, scheduleAt |-> now, auditId |-> auditId,
                 queuedAt |-> now, status |-> "PENDING"])

scheduleDeferred(queue, e, scheduleAt, auditId, now) ==
  Append(queue, [event |-> e, scheduleAt |-> scheduleAt, auditId |-> auditId,
                 queuedAt |-> now, status |-> "PENDING"])

-----------------------------------------------------------------------------
(* classifier.js *)

DayMs == HoursPerDay * MsPerHour
HourOf(t) == (t \div MsPerHour) % HoursPerDay

\* a faulty variant of checkDND: the hours after midnight are not quiet hours
checkDNDEvening(now) == HourOf(now) >= DndStartHour

checkDND(now) == HourOf(now) >= DndStartHour \/ HourOf(now) < DndEndHour

\* d = new Date(); d.setHours(8,0,0,0); a second clock read, w.lapse ms after
\* the first, decides the day
getNextOpenWindow(now1, now2) ==
  LET d == (now1 \div DayMs) * DayMs + DndEndHour * MsPerHour
  IN IF HourOf(now2) >= DndEndHour THEN d + DayMs ELSE d

getShortDefer(now) == now + ShortDeferMin * MsPerMin

\* Math.random() is k / RandDen
getOptimalWindow(eventType, now, k) ==
  IF eventType \in {"promotion", "low_value_promo", "system_update"}
  THEN now + 2 * MsPerHour + (3 * MsPerHour * k) \div RandDen
  ELSE now + 15 * MsPerMin + (30 * MsPerMin * k) \div RandDen

EventId(e) == IF IsNull(e.dedupe_key) THEN "uuid" ELSE Val(e.dedupe_key)

Decision(decision, score, reason, scheduleAt, auditId) ==
  [decision |-> decision, score |-> score, reason |-> reason,
   schedule_at |-> scheduleAt, audit_id |-> auditId]

\* the record finalize hands to writeAudit
AuditRecord(decision, score, reason, scheduleAt, stages, ruleMatches, auditId, e, now) ==
  [audit_id |-> auditId, event_id |-> EventId(e), user_id |-> e.user_id,
   event_type |-> e.event_type, decision |-> decision, score |-> score,
   reason |-> reason, stages |-> stages, rules_matched |-> ruleMatches,
   schedule_at |-> scheduleAt, created_at |-> now]

\* finalize after writeAudit: a LATER decision is queued, and the Decision is
\* returned unless the submission to the queue raises
Submit(w1, result, e, now, schedFault) ==
  IF result.decision = "LATER" /\ ~IsNull(result.schedule_at)
  THEN IF schedFault
       THEN [threw |-> TRUE, w |-> w1, queued |-> FALSE, result |-> result]
       ELSE [threw |-> FALSE, queued |-> TRUE, result |-> result,
             w |-> [w1 EXCEPT !.queue =
                      scheduleDeferred(w1.queue, e, Val(result.schedule_at),
                                       result.audit_id, now)]]
  ELSE [threw |-> FALSE, w |-> w1, queued |-> FALSE, result |-> result]

\* a faulty variant of finalize: a NEVER decision leaves no audit record
finalizeNeverUnaudited(w, decision, score, reason, scheduleAt, stages, ruleMatches, auditId, e, now, schedFault) ==
  Submit(IF decision = "NEVER" THEN w
         ELSE writeAudit(w, AuditRecord(decision, score, reason, scheduleAt, stages,
                                        ruleMatches, auditId, e, now)),
         Decision(decision, score, reason, scheduleAt, auditId), e, now, schedFault)

finalize(w, decision, score, reason, scheduleAt, stages, ruleMatches, auditId, e, now, schedFault) ==
  Submit(writeAudit(w, AuditRecord(decision, score, reason, scheduleAt, stages,
                                   ruleMatches, auditId, e, now)),
         Decision(decision, score, reason, scheduleAt, auditId), e, now, schedFault)

\* an exit of the try block: what is handed to finalize, and the path taken
Exit(w, path, decision, score, reason, scheduleAt, stages, ruleMatches) ==
  [kind |-> "exit", w |-> w, path |-> path, decision |-> decision, score |-> score,
   reason |-> reason, scheduleAt |-> scheduleAt, stages |-> stages,
   ruleMatches |-> ruleMatches]

\* a fault raised inside the try block before finalize is reached
Fault(w, path) ==
  [kind |-> "fault", w |-> w, path |-> path, decision |-> "NONE", score |-> 0,
   reason |-> <<"fault">>, scheduleAt |-> NULL, stages |-> <<>>, ruleMatches |-> <<>>]

\* await storeFingerprint(event)
Stored(w, e, now, mode) ==
  [w EXCEPT !.str = storeFingerprint(e, w.str, w.z, now, mode).str,
            !.z = storeFingerprint(e, w.str, w.z, now, mode).z]

\* await incrementCounter(event)
Counted(w, e, now, mode) == [w EXCEPT !.z = incrementCounter(e, w.z, now, mode)]

IsExpired(e, now) == ~IsNull(e.expires_at) /\ Val(e.expires_at) < now

\* a faulty variant of QuietHours: the DND deferral carries no schedule
QuietHoursNoSchedule(w, e, now, mode, stages, ruleMatches) ==
  IF checkDND(now)
  THEN IF FingerprintThrows(e) THEN Fault(w, "store")
       ELSE Exit(Stored(w, e, now, mode), "dnd", "LATER", DndScore,
                 <<"User in DND window">>, NULL, stages @@ [dnd |-> "IN_DND"],
                 ruleMatches)
  ELSE [kind |-> "score", w |-> w, path |-> "score", decision |-> "NONE", score |-> 0,
        reason |-> <<>>, scheduleAt |-> NULL, stages |-> stages @@ [dnd |-> "CLEAR"],
        ruleMatches |-> ruleMatches]

\* Stage 4: DND.  kind = "score" when the event goes on to the scoring stages.
QuietHours(w, e, now, mode, stages, ruleMatches) ==
  IF checkDND(now)
  THEN IF FingerprintThrows(e) THEN Fault(w, "store")
       ELSE Exit(Stored(w, e, now, mode), "dnd", "LATER", DndScore,
                 <<"User in DND window">>, Some(getNextOpenWindow(now, now + w.lapse)),
                 stages @@ [dnd |-> "IN_DND"], ruleMatches)
  ELSE [kind |-> "score", w |-> w, path |-> "score", decision |-> "NONE", score |-> 0,
        reason |-> <<>>, scheduleAt |-> NULL, stages |-> stages @@ [dnd |-> "CLEAR"],
        ruleMatches |-> ruleMatches]

\* a faulty variant of OperatorRules: the fingerprint is stored before the
\* SUPPRESS rule is looked for
OperatorRulesStoring(w, e, now, mode, stages, matched) ==
  IF ~IsNull(FindSuppress(matched))
  THEN Exit(Stored(w, e, now, mode), "suppressed", "NEVER", 0,
            <<"Suppressed by operator rule", Val(FindSuppress(matched)).rule_id>>, NULL,
            stages @@ [rules |-> "SUPPRESSED"], RuleIds(matched))
  ELSE QuietHours(w, e, now, mode,
                  stages @@ [rules |-> IF Len(matched) > 0 THEN "MATCHED" ELSE "NONE"],
                  RuleIds(matched))

\* a faulty variant of OperatorRules: a SEND_NOW rule at the head of the
\* matched rules is obeyed
OperatorRulesSendNow(w, e, now, mode, stages, matched) ==
  IF ~IsNull(FindSuppress(matched))
  THEN Exit(w, "suppressed", "NEVER", 0,
            <<"Suppressed by operator rule", Val(FindSuppress(matched)).rule_id>>, NULL,
            stages @@ [rules |-> "SUPPRESSED"], RuleIds(matched))
  ELSE IF matched # <<>> /\ Head(matched).action = "SEND_NOW"
  THEN Exit(w, "forced", "NOW", MaxScore, <<"Forced by operator rule">>, NULL,
            stages @@ [rules |-> "MATCHED"], RuleIds(matched))
  ELSE QuietHours(w, e, now, mode,
                  stages @@ [rules |-> IF Len(matched) > 0 THEN "MATCHED" ELSE "NONE"],
                  RuleIds(matched))

\* Stage 3, the operator rules that matched
OperatorRules(w, e, now, mode, stages, matched) ==
  IF ~IsNull(FindSuppress(matched))
  THEN Exit(w, "suppressed", "NEVER", 0,
            <<"Suppressed by operator rule", Val(FindSuppress(matched)).rule_id>>, NULL,
            stages @@ [rules |-> "SUPPRESSED"], RuleIds(matched))
  ELSE QuietHours(w, e, now, mode,
                  stages @@ [rules |-> IF Len(matched) > 0 THEN "MATCHED" ELSE "NONE"],
                  RuleIds(matched))

\* a faulty variant of HardRules: the operator rules come before the CRITICAL test
HardRulesRulesFirst(w, e, now, mode, stages) ==
  OperatorRules(w, e, now, mode, stages, matchRules(e, w.rules))

\* Stage 3: CRITICAL is answered at once; w holds the rules getRules answered
HardRules(w, e, now, mode, stages) ==
  IF e.priority_hint = "CRITICAL"
  THEN IF FingerprintThrows(e) THEN Fault(w, "store")
       ELSE Exit(Counted(Stored(w, e, now, mode), e, now, mode), "critical", "NOW",
                 CriticalScore, <<"CRITICAL priority">>, NULL,
                 stages @@ [rules |-> "CRITICAL_OVERRIDE"], <<"critical-always-now">>)
  ELSE OperatorRules(w, e, now, mode, stages, matchRules(e, w.rules))

\* Stage 2, dup being the answer of checkDuplicate
DedupGuard(w, e, now, mode, file, dup) ==
  IF dup.threw THEN Fault(w, "dedup")
  ELSE IF dup.isDuplicate
  THEN Exit(w, "duplicate", "NEVER", 0, <<"Duplicate suppressed", dup.type>>, NULL,
            [expiry |-> "VALID", dedup |-> dup.type], <<>>)
  ELSE HardRules(IF e.priority_hint = "CRITICAL" THEN w
                 ELSE [w EXCEPT !.rules = getRules(w.rules, file)],
                 e, now, mode, [expiry |-> "VALID", dedup |-> "PASS"])

\* a faulty variant of Guards: the dedup guard comes before the expiry guard
GuardsDedupFirst(w, e, now, mode, file) ==
  IF ~checkDuplicate(e, w.str, w.z, now, mode).isDuplicate /\ IsExpired(e, now)
  THEN Exit(w, "expired", "NEVER", 0, <<"Event expired">>, NULL,
            [expiry |-> "EXPIRED"], <<>>)
  ELSE DedupGuard(w, e, now, mode, file, checkDuplicate(e, w.str, w.z, now, mode))

\* Stages 1-4: expiry, dedup, CRITICAL, rules, DND
Guards(w, e, now, mode, file) ==
  IF IsExpired(e, now)
  THEN Exit(w, "expired", "NEVER", 0, <<"Event expired">>, NULL,
            [expiry |-> "EXPIRED"], <<>>)
  ELSE DedupGuard(w, e, now, mode, file, checkDuplicate(e, w.str, w.z, now, mode))

\* the decision boundary of stage 9
Boundary(finalScore) ==
  IF Ge(finalScore, NowThreshold) THEN "NOW"
  ELSE IF Ge(finalScore, LaterThreshold) THEN "LATER"
  ELSE "NEVER"

\* Stages 8-9, conflict being the answer of resolveConflict
Resolve(g, e, now, mode, k, finalScore, stages, conflict) ==
  IF FingerprintThrows(e) THEN Fault(g.w, "store")
  ELSE IF conflict.resolved
  THEN Exit(Counted(Stored(g.w, e, now, mode), e, now, mode), "conflict",
            conflict.decision, finalScore, <<"CONFLICT RESOLVED", conflict.rule>>,
            IF conflict.decision = "LATER" THEN Some(getShortDefer(now)) ELSE NULL,
            stages @@ [conflict |-> conflict.rule], g.ruleMatches)
  ELSE Exit(Counted(Stored(g.w, e, now, mode), e, now, mode), "boundary",
            Boundary(finalScore), finalScore, <<"Score", Boundary(finalScore)>>,
            IF Boundary(finalScore) = "LATER"
            THEN Some(getOptimalWindow(e.event_type, now, k)) ELSE NULL,
            stages @@ [conflict |-> 0, decision |-> Boundary(finalScore)],
            g.ruleMatches)

\* a faulty variant of Score: a fault of getAiScore is not caught at stage 7
ScoreAiFatal(g, e, now, mode, ai, k, baseScore, fatigue) ==
  IF IsNull(ai) THEN Fault(g.w, "ai")
  ELSE Resolve(g, e, now, mode, k, FinalScore(baseScore, fatigue.penalty, Val(ai)),
               g.stages @@ [scorer |-> baseScore, fatigue |-> fatigue.level, ai |-> "OK"],
               resolveConflict(e, FinalScore(baseScore, fatigue.penalty, Val(ai)), fatigue))

\* Stages 5-7 given the base score and the fatigue answer
Score(g, e, now, mode, ai, k, baseScore, fatigue) ==
  Resolve(g, e, now, mode, k,
          FinalScore(baseScore, fatigue.penalty, IF IsNull(ai) THEN 0 ELSE Val(ai)),
          g.stages @@ [scorer |-> baseScore, fatigue |-> fatigue.level,
                       ai |-> IF IsNull(ai) THEN "SKIPPED" ELSE "OK"],
          resolveConflict(e,
            FinalScore(baseScore, fatigue.penalty, IF IsNull(ai) THEN 0 ELSE Val(ai)),
            fatigue))

\* Stages 5-9 for an event that passed the guards g.  ai is <<>> when
\* getAiScore raises, <<n>> when it answers n.
Scoring(g, e, now, mode, ai, k) ==
  Score(g, e, now, mode, ai, k, computeScore(e, now),
        getFatiguePenalty(g.w.z, e.user_id, now, mode))

\* the try block from the guards' answer g to the call of finalize
Stages(g, e, now, mode, ai, k) ==
  IF g.kind = "score" THEN Scoring(g, e, now, mode, ai, k) ELSE g

\* the try block up to the call of finalize
TryBlock(w, e, now, mode, file, ai, k) ==
  Stages(Guards(w, e, now, mode, file), e, now, mode, ai, k)

\* a faulty variant of Failsafe: every fault is rethrown
FailsafeRethrow(w, e, auditId, now) ==
  [threw |-> TRUE, w |-> w, queued |-> FALSE, failsafe |-> FALSE,
   result |-> Decision("NONE", 0, <<"rethrown">>, NULL, auditId)]

\* the catch block: a CRITICAL event is answered NOW, any other fault is rethrown
Failsafe(w, e, auditId, now) ==
  IF e.priority_hint = "CRITICAL"
  THEN finalize(w, "NOW", FailsafeScore, <<"FAILSAFE">>, NULL,
                [failsafe |-> TRUE], <<>>, auditId, e, now, FALSE)
         @@ [failsafe |-> TRUE]
  ELSE [threw |-> TRUE, w |-> w, queued |-> FALSE, failsafe |-> FALSE,
        result |-> Decision("NONE", 0, <<"rethrown">>, NULL, auditId)]

\* the try block's last statement: finalize, unless a fault came first
Finish(x, e, auditId, now, schedFault) ==
  IF x.kind = "fault"
  THEN [threw |-> TRUE, w |-> x.w, queued |-> FALSE,
        result |-> Decision("NONE", 0, <<"fault">>, NULL, auditId)]
  ELSE finalize(x.w, x.decision, x.score, x.reason, x.scheduleAt, x.stages,
                x.ruleMatches, auditId, e, now, schedFault)

\* try / catch around the outcome f of the try block
Caught(f, e, auditId, now) ==
  IF f.threw THEN Failsafe(f.w, e, auditId, now) ELSE f @@ [failsafe |-> FALSE]

\* what a call leaves behind: the state, whether it raised, the Decision, the path
Outcome(x, faulted, out) ==
  [w |-> out.w, threw |-> out.threw, result |-> out.result, queued |-> out.queued,
   failsafe |-> out.failsafe, path |-> x.path, faulted |-> faulted,
   dup |-> IF "dedup" \in DOMAIN x.stages THEN x.stages.dedup ELSE "NONE"]

Answer(x, e, auditId, now, schedFault) ==
  Outcome(x, Finish(x, e, auditId, now, schedFault).threw,
          Caught(Finish(x, e, auditId, now, schedFault), e, auditId, now))

\* evaluate(event)
evaluate(w, e, auditId, now, mode, file, ai, k, schedFault) ==
  Answer(TryBlock(w, e, now, mode, file, ai, k), e, auditId, now, schedFault)

-----------------------------------------------------------------------------
(* The inputs of the model *)

\* "big sale now", " Big  sale NOW" (the same after normalization),
\* "big sale now!" (another fingerprint, the same tokens)
MsgPlain == <<"b", "i", "g", " ", "s", "a", "l", "e", " ", "n", "o", "w">>
MsgSpaced == <<" ", "B", "i", "g", " ", " ", "s", "a", "l", "e", " ", "N", "O", "W">>
MsgBang == <<"b", "i", "g", " ", "s", "a", "l", "e", " ", "n", "o", "w", "!">>

Priorities == {"CRITICAL", "HIGH", "MEDIUM", "LOW"}

\* the events of user u1 submitted at instant now: every priority; a
\* dedupe_key; promotions, one expiring at this very instant; the message
\* variants and a message that is not a string; expired events
EventsAt(now) ==
  [user_id : {"u1"}, event_type : {"direct_message"}, message : {MsgPlain},
   source : {"noisy-svc"}, priority_hint : Priorities, timestamp : {Some(now)},
   channel : {"push"}, dedupe_key : {NULL}, expires_at : {NULL}]
  \cup
  [user_id : {"u1"}, event_type : {"direct_message"}, message : {MsgPlain},
   source : {"noisy-svc"}, priority_hint : {"CRITICAL", "MEDIUM"},
   timestamp : {Some(now)}, channel : {"push"}, dedupe_key : {Some("k1")},
   expires_at : {NULL, Some(now - 1)}]
  \cup
  [user_id : {"u1"}, event_type : {"promotion"}, message : {MsgPlain},
   source : {"noisy-svc"}, priority_hint : {"CRITICAL", "MEDIUM"},
   timestamp : {Some(now)}, channel : {"push"}, dedupe_key : {NULL},
   expires_at : {Some(now)}]
  \cup
  [user_id : {"u1"}, event_type : {"direct_message"},
   message : {MsgSpaced, MsgBang, NotAString},
   source : {"noisy-svc"}, priority_hint : {"CRITICAL", "MEDIUM"},
   timestamp : {Some(now)}, channel : {"push"}, dedupe_key : {NULL},
   expires_at : {NULL}]

\* getAiScore: it raises (<<>>) or answers an adjustment
AiOutcomes == {NULL, Some(15)}

RuleSuppress ==
  [rule_id |-> "no-promo", condition |-> [event_type |-> "promotion"],
   action |-> "SUPPRESS", priority |-> 10, enabled |-> TRUE]
RuleSendNow ==
  [rule_id |-> "fast-lane", condition |-> [priority |-> "*"],
   action |-> "SEND_NOW", priority |-> 90, enabled |-> TRUE]
RuleOff ==
  [rule_id |-> "no-dm", condition |-> [event_type |-> "direct_message"],
   action |-> "SUPPRESS", priority |-> 50, enabled |-> FALSE]

\* the contents of config/rules.json
RulesJson == Some(<<RuleSuppress, RuleSendNow, RuleOff>>)

\* the clock at start: 03:00 (inside the DND window) and 12:00
StartClocks == {3 * MsPerHour, 12 * MsPerHour}

\* the time that passes in one step of the clock
Deltas == {TTL_TRANSACTIONAL * MsPerSec}

\* counter entries left in Redis by earlier notifications of user u1
PriorCounts == {0, CapTotal}
PriorAge == 11 * MsPerMin

PriorMembers(n, now) ==
  {[m |-> <<now - PriorAge - i, "reminder">>, s |-> now - PriorAge - i] : i \in 1..n}

PriorCounters(n, now) ==
  IF n = 0 THEN {}
  ELSE {[key |-> FreqKey("u1", suffix), members |-> PriorMembers(n, now),
         exp |-> now - PriorAge - 1 + W4H * MsPerSec] : suffix \in {"total", "old-svc"}}

NoCall ==
  [made |-> FALSE]

\* the events of user u1 that reach the scoring stages: three priorities,
\* event types of high, middle and low weight, a noisy and a quiet source, a
\* fresh and a two hours old timestamp, the channels of highest and lowest weight
ScoredEventsAt(now) ==
  [user_id : {"u1"}, event_type : {"security_alert", "reminder", "low_value_promo"},
   message : {MsgPlain}, source : {"noisy-svc", "billing-svc"},
   priority_hint : {"HIGH", "MEDIUM", "LOW"},
   timestamp : {Some(now), Some(now - 2 * MsPerHour)}, channel : {"sms", "in-app"},
   dedupe_key : {NULL}, expires_at : {NULL}]

\* the answers of the AI service: no answer in time, an HTTP error, a body
\* without score_adjustment, adjustments below, at and above the clamp, and a
\* score_adjustment that is not a number
AiResponses ==
  {AiTimeout, AiHttpError, AiOk(NULL), AiOk(Some(0 - 25)), AiOk(Some(AiCeil)),
   AiOk(Some(40)), AiOk(Some(NaN))}

RuleVip ==
  [rule_id |-> "vip", condition |-> [priority |-> "HIGH"],
   action |-> "SEND_NOW", priority |-> 90, enabled |-> TRUE]
RuleSlowInApp ==
  [rule_id |-> "slow-in-app", condition |-> [channel |-> "in-app"],
   action |-> "DEFER", priority |-> 50, enabled |-> TRUE]
RulePromoCap ==
  [rule_id |-> "promo-cap", condition |-> [event_type |-> "low_value_promo"],
   action |-> "CAP", priority |-> 20, enabled |-> TRUE]
RuleMuteNoisyPromo ==
  [rule_id |-> "mute-noisy-promo",
   condition |-> [event_type |-> "low_value_promo", source |-> "noisy-svc"],
   action |-> "SUPPRESS", priority |-> 10, enabled |-> TRUE]

\* a rules file with a rule of every action; the SUPPRESS rule has the lowest priority
ScoredRulesJson == Some(<<RuleMuteNoisyPromo, RulePromoCap, RuleSlowInApp, RuleVip>>)

\* the clock at start: 12:00, 03:00, one ms before 08:00, one ms before midnight
ScoredClocks ==
  {12 * MsPerHour, 3 * MsPerHour, DndEndHour * MsPerHour - 1, HoursPerDay * MsPerHour - 1}

\* every count of the total counter up to the cap
ScoredCounts == 0..CapTotal

-----------------------------------------------------------------------------
(* The state machine *)

\* lapse: the ms that pass between two readings of the clock within one call
World ==
  [str |-> kvStr, z |-> kvZ, rules |-> cachedRules, audit |-> auditStore,
   hist |-> historyStore, queue |-> deferredQueue, lapse |-> 0]

\* the server is up: the Redis client is created and ready, and initRuleLoader
\* has read the rules file
Init ==
  /\ clock \in StartClocks
  /\ connected = TRUE
  /\ rejecting = FALSE
  /\ kvStr = {}
  /\ \E n \in PriorCounts : kvZ = PriorCounters(n, clock)
  /\ rulesFile = RulesJson
  /\ cachedRules = loadRules(<<>>, rulesFile)
  /\ auditStore = {}
  /\ historyStore = <<>>
  /\ deferredQueue = <<>>
  /\ delivered = {}
  /\ last = NoCall
  /\ nEvals = 0
  /\ nEnv = 0
  /\ inflight = {}
  /\ reloadFailed = FALSE

\* uuidv4().slice(0, 8): an id not in use, or one that is
UsedIds == {r.audit_id : r \in auditStore}
AuditIdChoices ==
  LET free == (1..NumAuditIds) \ UsedIds
  IN UsedIds \cup (IF free = {} THEN {} ELSE {CHOOSE i \in free : \A j \in free : i <= j})

\* the outcomes of scheduleDeferred and of Math.random() that a call can meet
SchedFaults(x) ==
  IF x.kind = "exit" /\ x.decision = "LATER" THEN BOOLEAN ELSE {FALSE}
RandomDraws(x, schedFault) ==
  IF x.kind = "exit" /\ x.decision = "LATER" /\ x.path = "boundary" /\ ~schedFault
  THEN 0..(RandDen - 1) ELSE {0}
AiAnswers(g) == IF g.kind = "score" THEN AiOutcomes ELSE {NULL}

\* the state and the history after a call with outcome r
Return(e, mode, ai, k, schedFault, r) ==
  /\ kvStr' = r.w.str
  /\ kvZ' = r.w.z
  /\ cachedRules' = r.w.rules
  /\ auditStore' = r.w.audit
  /\ historyStore' = r.w.hist
  /\ deferredQueue' = r.w.queue
  /\ delivered' =
       IF ~r.threw /\ ~r.failsafe /\ mode = "ok" /\ r.result.decision \in {"NOW", "LATER"}
       THEN delivered \cup {[fp |-> buildFingerprint(e), at |-> clock,
                             key |-> e.dedupe_key, decision |-> r.result.decision,
                             priority |-> e.priority_hint, message |-> e.message]}
       ELSE delivered
  /\ last' = [made |-> TRUE, event |-> e, now |-> clock, mode |-> mode,
              threw |-> r.threw, result |-> r.result, path |-> r.path,
              failsafe |-> r.failsafe, faulted |-> r.faulted, queued |-> r.queued,
              dup |-> r.dup, schedFault |-> schedFault, ai |-> ai, k |-> k,
              lapse |-> r.w.lapse]

\* one call of evaluate(event), from its first statement to its return or raise
Evaluate ==
  /\ nEvals < MaxEvals
  /\ \E e \in EventsAt(clock), id \in AuditIdChoices :
     \E ai \in AiAnswers(Guards(World, e, clock, getRedis(connected, rejecting),
                                rulesFile)) :
       LET x == TryBlock(World, e, clock, getRedis(connected, rejecting), rulesFile, ai, 0)
       IN \E schedFault \in SchedFaults(x) :
          \E k \in RandomDraws(x, schedFault) :
            Return(e, getRedis(connected, rejecting), ai, k, schedFault,
                   evaluate(World, e, id, clock, getRedis(connected, rejecting),
                            rulesFile, ai, k, schedFault))
  /\ nEvals' = nEvals + 1
  /\ UNCHANGED <<clock, connected, rejecting, rulesFile, nEnv, inflight, reloadFailed>>

\* time passes; Redis drops the keys whose time to live is over
Tick ==
  /\ nEnv < MaxEnv /\ nEvals < MaxEvals
  /\ \E d \in Deltas :
       /\ clock' = clock + d
       /\ kvStr' = ExpireKeys(kvStr, clock + d)
       /\ kvZ' = ExpireKeys(kvZ, clock + d)
  /\ nEnv' = nEnv + 1
  /\ UNCHANGED <<connected, rejecting, cachedRules, rulesFile, auditStore, historyStore,
                 deferredQueue, delivered, last, nEvals, inflight, reloadFailed>>

\* the Redis server starts failing commands while the client is still ready
RedisFail ==
  /\ nEnv < MaxEnv /\ nEvals < MaxEvals
  /\ connected /\ ~rejecting
  /\ rejecting' = TRUE
  /\ nEnv' = nEnv + 1
  /\ UNCHANGED <<clock, connected, kvStr, kvZ, cachedRules, rulesFile, auditStore,
                 historyStore, deferredQueue, delivered, last, nEvals,
                 inflight, reloadFailed>>

\* redisService.js: the 'close' event
RedisClose ==
  /\ nEnv < MaxEnv /\ nEvals < MaxEvals
  /\ connected
  /\ connected' = FALSE
  /\ rejecting' = FALSE
  /\ nEnv' = nEnv + 1
  /\ UNCHANGED <<clock, kvStr, kvZ, cachedRules, rulesFile, auditStore, historyStore,
                 deferredQueue, delivered, last, nEvals, inflight, reloadFailed>>

\* redisService.js: the 'ready' event, after a reconnection
RedisReady ==
  /\ nEvals < MaxEvals
  /\ ~connected \/ rejecting
  /\ connected' = TRUE
  /\ rejecting' = FALSE
  /\ UNCHANGED <<clock, kvStr, kvZ, cachedRules, rulesFile, auditStore, historyStore,
                 deferredQueue, delivered, last, nEvals, nEnv, inflight, reloadFailed>>

Next ==
  \/ Evaluate
  \/ Tick
  \/ RedisFail
  \/ RedisClose
  \/ RedisReady

Spec == Init /\ [][Next]_vars

\* the server has been up for a while: counters of earlier notifications are
\* in Redis, one more call of evaluate is to come
InitScored ==
  /\ clock \in ScoredClocks
  /\ connected = TRUE
  /\ rejecting = FALSE
  /\ kvStr = {}
  /\ \E n \in ScoredCounts : kvZ = PriorCounters(n, clock)
  /\ rulesFile = ScoredRulesJson
  /\ cachedRules = loadRules(<<>>, rulesFile)
  /\ auditStore = {}
  /\ historyStore = <<>>
  /\ deferredQueue = <<>>
  /\ delivered = {}
  /\ last = NoCall
  /\ nEvals = MaxEvals - 1
  /\ nEnv = 0
  /\ inflight = {}
  /\ reloadFailed = FALSE

\* the ms between the two clock readings of getNextOpenWindow
Lapses(g) == IF g.path = "dnd" THEN 0..MaxLapse ELSE {0}
AiReplies(g) == IF g.kind = "score" THEN {getAiScore(r) : r \in AiResponses} ELSE {NULL}

\* one call of evaluate(event) while the clock runs and the AI service answers
EvaluateScored ==
  /\ nEvals < MaxEvals
  /\ \E e \in ScoredEventsAt(clock), id \in AuditIdChoices :
     \E ai \in AiReplies(Guards(World, e, clock, getRedis(connected, rejecting),
                                rulesFile)),
        l \in Lapses(Guards(World, e, clock, getRedis(connected, rejecting), rulesFile)) :
       LET x == TryBlock(World, e, clock, getRedis(connected, rejecting), rulesFile, ai, 0)
       IN \E schedFault \in SchedFaults(x) :
          \E k \in RandomDraws(x, schedFault) :
            Return(e, getRedis(connected, rejecting), ai, k, schedFault,
                   evaluate([World EXCEPT !.lapse = l], e, id, clock,
                            getRedis(connected, rejecting), rulesFile, ai, k, schedFault))
  /\ nEvals' = nEvals + 1
  /\ UNCHANGED <<clock, connected, rejecting, rulesFile, nEnv, inflight, reloadFailed>>

NextScored ==
  \/ EvaluateScored
  \/ RedisFail
  \/ RedisClose
  \/ RedisReady

ScoreSpec == InitScored /\ [][NextScored]_vars

-----------------------------------------------------------------------------
(* The rules file and the reload timer *)

\* what config/rules.json can hold: the rules of Init, a file whose only rule
\* is disabled, a file that suppresses direct messages, and no readable or
\* parsable content at all
RuleDm == [RuleOff EXCEPT !.enabled = TRUE]
RuleFiles == {RulesJson, Some(<<RuleOff>>), Some(<<RuleDm, RuleSendNow>>), NULL}

\* the events submitted while the rules file changes
RuledEventsAt(now) ==
  [user_id : {"u1"}, event_type : {"direct_message", "promotion"},
   message : {MsgPlain, MsgBang}, source : {"noisy-svc"},
   priority_hint : {"MEDIUM", "CRITICAL"}, timestamp : {Some(now)}, channel : {"push"},
   dedupe_key : {NULL}, expires_at : {NULL}]

\* initRuleLoader has run once, over whatever the file held
InitRuled ==
  /\ clock = 12 * MsPerHour
  /\ connected = TRUE
  /\ rejecting = FALSE
  /\ kvStr = {}
  /\ kvZ = {}
  /\ rulesFile \in RuleFiles
  /\ cachedRules = loadRules(<<>>, rulesFile)
  /\ auditStore = {}
  /\ historyStore = <<>>
  /\ deferredQueue = <<>>
  /\ delivered = {}
  /\ last = NoCall
  /\ nEvals = 0
  /\ nEnv = 0
  /\ inflight = {}
  /\ reloadFailed = IsNull(rulesFile)

\* config/rules.json is rewritten, removed or left half-written
RulesFileChanges ==
  /\ nEnv < MaxFileSteps /\ nEvals < MaxEvals
  /\ \E f \in RuleFiles \ {rulesFile} : rulesFile' = f
  /\ nEnv' = nEnv + 1
  /\ UNCHANGED <<clock, connected, rejecting, kvStr, kvZ, cachedRules, auditStore,
                 historyStore, deferredQueue, delivered, last, nEvals, inflight,
                 reloadFailed>>

\* setInterval(loadRules, RELOAD_INTERVAL): one run of the timer
ReloadRules ==
  /\ nEnv < MaxFileSteps /\ nEvals < MaxEvals
  /\ cachedRules' = loadRules(cachedRules, rulesFile)
  /\ reloadFailed' = IsNull(rulesFile)
  /\ nEnv' = nEnv + 1
  /\ UNCHANGED <<clock, connected, rejecting, kvStr, kvZ, rulesFile, auditStore,
                 historyStore, deferredQueue, delivered, last, nEvals, inflight>>

\* one call of evaluate(event) between two runs of the timer
EvaluateRuled ==
  /\ nEvals < MaxEvals
  /\ \E e \in RuledEventsAt(clock), id \in AuditIdChoices :
     \E ai \in AiAnswers(Guards(World, e, clock, getRedis(connected, rejecting),
                                rulesFile)) :
       LET x == TryBlock(World, e, clock, getRedis(connected, rejecting), rulesFile, ai, 0)
       IN \E schedFault \in SchedFaults(x) :
          \E k \in RandomDraws(x, schedFault) :
            Return(e, getRedis(connected, rejecting), ai, k, schedFault,
                   evaluate(World, e, id, clock, getRedis(connected, rejecting),
                            rulesFile, ai, k, schedFault))
  /\ nEvals' = nEvals + 1
  /\ UNCHANGED <<clock, connected, rejecting, rulesFile, nEnv, inflight, reloadFailed>>

NextRuled ==
  \/ EvaluateRuled
  \/ RulesFileChanges
  \/ ReloadRules

RuleSpec == InitRuled /\ [][NextRuled]_vars

-----------------------------------------------------------------------------
(* Calls in a row, and calls that overlap *)

\* "now": shorter than the 10 characters the near-duplicate check asks for
MsgShort == <<"n", "o", "w">>

\* the n-th call carries the n-th pair of event type and source, so that no
\* two calls carry the same fingerprint; neither source is in the noisy list
TurnType(n) ==
  CASE (n - 1) % 3 = 0 -> "direct_message" [] (n - 1) % 3 = 1 -> "security_alert"
    [] OTHER -> "payment_alert"
TurnSource(n) ==
  CASE (n - 1) \div 3 = 0 -> "chat-svc" [] (n - 1) \div 3 = 1 -> "auth-svc"
    [] OTHER -> "billing-svc"
TurnEventsAt(n, now) ==
  [user_id : {"u1"}, event_type : {TurnType(n)}, message : {MsgShort},
   source : {TurnSource(n)}, priority_hint : {"HIGH", "MEDIUM"},
   timestamp : {Some(now)}, channel : {"push"}, dedupe_key : {NULL}, expires_at : {NULL}]

\* the adjustments the AI service answers in these runs
TurnAiAnswers(g) == IF g.kind = "score" THEN {Some(5), Some(AiCeil)} ELSE {NULL}

\* a rules file none of whose enabled rules matches these events
QuietRulesJson == Some(<<RuleSuppress, RuleOff>>)

\* a server freshly started, no counter entry in Redis
InitTurns ==
  /\ clock \in StartClocks
  /\ connected = TRUE
  /\ rejecting = FALSE
  /\ kvStr = {}
  /\ kvZ = {}
  /\ rulesFile = QuietRulesJson
  /\ cachedRules = loadRules(<<>>, rulesFile)
  /\ auditStore = {}
  /\ historyStore = <<>>
  /\ deferredQueue = <<>>
  /\ delivered = {}
  /\ last = NoCall
  /\ nEvals = 0
  /\ nEnv = 0
  /\ inflight = {}
  /\ reloadFailed = FALSE

\* one call of evaluate(event) from start to return, the next call starting
\* at a later millisecond
EvaluateInTurn ==
  /\ nEvals < MaxCalls
  /\ \E e \in TurnEventsAt(nEvals + 1, clock) :
     \E ai \in TurnAiAnswers(Guards(World, e, clock, getRedis(connected, rejecting),
                                    rulesFile)) :
       Return(e, getRedis(connected, rejecting), ai, 0, FALSE,
              evaluate(World, e, nEvals + 1, clock, getRedis(connected, rejecting),
                       rulesFile, ai, 0, FALSE))
  /\ nEvals' = nEvals + 1
  /\ clock' = clock + 1
  /\ UNCHANGED <<connected, rejecting, rulesFile, nEnv, inflight, reloadFailed>>

NextTurns ==
  \/ EvaluateInTurn
  \/ RedisClose
  \/ RedisReady

CapSpec == InitTurns /\ [][NextTurns]_vars

\* the events of the overlapping calls: the HIGH ones
RaceEventsAt(n, now) == {e \in TurnEventsAt(n, now) : e.priority_hint = "HIGH"}

\* a call suspended at "await getAiScore(event)" (classifier.js:112): the
\* stages so far, the base score and the fatigue answer it holds
Suspended(n, e, g, now, mode) ==
  [n |-> n, event |-> e, stages |-> g.stages, ruleMatches |-> g.ruleMatches,
   baseScore |-> computeScore(e, now),
   fatigue |-> getFatiguePenalty(g.w.z, e.user_id, now, mode)]

\* the suspended call p, resumed in the state of now
Resumed(p) ==
  [kind |-> "score", w |-> World, path |-> "score", decision |-> "NONE", score |-> 0,
   reason |-> <<>>, scheduleAt |-> NULL, stages |-> p.stages,
   ruleMatches |-> p.ruleMatches]

\* a call of evaluate(event) runs stages 1 to 6 and waits for the AI service
\* while other requests are served
BeginCall ==
  /\ nEvals < MaxCalls /\ Cardinality(inflight) < MaxInflight
  /\ \E e \in RaceEventsAt(nEvals + 1, clock) :
       /\ Guards(World, e, clock, getRedis(connected, rejecting), rulesFile).kind = "score"
       /\ cachedRules' = getRules(cachedRules, rulesFile)
       /\ inflight' = inflight \cup
            {Suspended(nEvals + 1, e,
                       Guards(World, e, clock, getRedis(connected, rejecting), rulesFile),
                       clock, getRedis(connected, rejecting))}
  /\ nEvals' = nEvals + 1
  /\ clock' = clock + 1
  /\ UNCHANGED <<connected, rejecting, kvStr, kvZ, rulesFile, auditStore, historyStore,
                 deferredQueue, delivered, last, nEnv, reloadFailed>>

\* the AI service has answered: stages 7 to 9 and finalize
FinishCall ==
  /\ \E p \in inflight :
       /\ \E ai \in {Some(5), Some(AiCeil)} :
            Return(p.event, getRedis(connected, rejecting), ai, 0, FALSE,
                   Answer(Score(Resumed(p), p.event, clock, getRedis(connected, rejecting),
                                ai, 0, p.baseScore, p.fatigue),
                          p.event, p.n, clock, FALSE))
       /\ inflight' = inflight \ {p}
  /\ clock' = clock + 1
  /\ UNCHANGED <<connected, rejecting, rulesFile, nEvals, nEnv, reloadFailed>>

\* a call that ends before stage 5 does not wait for anything but Redis
AnswerAtOnce ==
  /\ nEvals < MaxCalls
  /\ \E e \in RaceEventsAt(nEvals + 1, clock) :
       /\ Guards(World, e, clock, getRedis(connected, rejecting), rulesFile).kind # "score"
       /\ Return(e, getRedis(connected, rejecting), NULL, 0, FALSE,
                 evaluate(World, e, nEvals + 1, clock, getRedis(connected, rejecting),
                          rulesFile, NULL, 0, FALSE))
  /\ nEvals' = nEvals + 1
  /\ clock' = clock + 1
  /\ UNCHANGED <<connected, rejecting, rulesFile, nEnv, inflight, reloadFailed>>

NextRace ==
  \/ BeginCall
  \/ FinishCall
  \/ AnswerAtOnce

RaceSpec == InitTurns /\ [][NextRace]_vars

-----------------------------------------------------------------------------
(* The fatigue guard under every cap *)

\* MAX_NOTIFS_PER_HOUR: the values of CAPS.total
Caps == 1..MaxCap

\* Redis holds up to MaxCount counter entries of user u1 within the past hour
InitFatigue ==
  /\ clock = 12 * MsPerHour
  /\ connected = TRUE
  /\ rejecting = FALSE
  /\ kvStr = {}
  /\ \E n \in 0..MaxCount : kvZ = PriorCounters(n, clock)
  /\ rulesFile = QuietRulesJson
  /\ cachedRules = loadRules(<<>>, rulesFile)
  /\ auditStore = {}
  /\ historyStore = <<>>
  /\ deferredQueue = <<>>
  /\ delivered = {}
  /\ last = NoCall
  /\ nEvals = 0
  /\ nEnv = 0
  /\ inflight = {}
  /\ reloadFailed = FALSE

\* one call of getFatiguePenalty('u1') in a process started with CAPS.total = cap
ReadFatigue ==
  /\ nEnv = 0
  /\ \E cap \in Caps :
       last' = [made |-> FALSE, cap |-> cap,
                fatigue |-> FatigueFor(ZCount(kvZ, FreqKey("u1", "total"),
                                              clock - W1H * MsPerSec, clock, clock), cap)]
  /\ nEnv' = 1
  /\ UNCHANGED <<clock, connected, rejecting, kvStr, kvZ, cachedRules, rulesFile,
                 auditStore, historyStore, deferredQueue, delivered, nEvals, inflight,
                 reloadFailed>>

FatigueSpec == InitFatigue /\ [][ReadFatigue]_vars

-----------------------------------------------------------------------------
(* Calls within one millisecond *)

\* the n-th event: a direct_message of user u1, each from another source
BurstEventsAt(n, now) ==
  [user_id : {"u1"}, event_type : {"direct_message"}, message : {MsgShort},
   source : {TurnSource(3 * n)}, priority_hint : {"HIGH", "MEDIUM"},
   timestamp : {Some(now)}, channel : {"push"}, dedupe_key : {NULL}, expires_at : {NULL}]

\* one call of evaluate(event); Date.now() of the next call is the same
\* millisecond or the one after
EvaluateInBurst ==
  /\ nEvals < MaxBurst
  /\ \E e \in BurstEventsAt(nEvals + 1, clock) :
     \E ai \in TurnAiAnswers(Guards(World, e, clock, getRedis(connected, rejecting),
                                    rulesFile)) :
       Return(e, getRedis(connected, rejecting), ai, 0, FALSE,
              evaluate(World, e, nEvals + 1, clock, getRedis(connected, rejecting),
                       rulesFile, ai, 0, FALSE))
  /\ nEvals' = nEvals + 1
  /\ clock' \in {clock, clock + 1}
  /\ UNCHANGED <<connected, rejecting, rulesFile, nEnv, inflight, reloadFailed>>

BurstSpec == InitTurns /\ [][EvaluateInBurst]_vars

-----------------------------------------------------------------------------
(* Two users *)

\* events of two users with the same event_type and source, the same or
\* nearly the same message, with and without a shared dedupe_key
UserEventsAt(now) ==
  [user_id : {"u1", "u2"}, event_type : {"direct_message"}, message : {MsgPlain, MsgBang},
   source : {"noisy-svc"}, priority_hint : {"MEDIUM"}, timestamp : {Some(now)},
   channel : {"push"}, dedupe_key : {NULL, Some("k1")}, expires_at : {NULL}]

\* one call of evaluate(event) from start to return
EvaluateUser ==
  /\ nEvals < MaxUserCalls
  /\ \E e \in UserEventsAt(clock) :
     \E ai \in TurnAiAnswers(Guards(World, e, clock, getRedis(connected, rejecting),
                                    rulesFile)) :
       Return(e, getRedis(connected, rejecting), ai, 0, FALSE,
              evaluate(World, e, nEvals + 1, clock, getRedis(connected, rejecting),
                       rulesFile, ai, 0, FALSE))
  /\ nEvals' = nEvals + 1
  /\ clock' = clock + 1
  /\ UNCHANGED <<connected, rejecting, rulesFile, nEnv, inflight, reloadFailed>>

UserSpec == InitTurns /\ [][EvaluateUser]_vars

-----------------------------------------------------------------------------
(* Calls minutes apart *)

\* events of one user and event_type: two nearly equal messages and a short one
SpacedEventsAt(now) ==
  [user_id : {"u1"}, event_type : {"direct_message"},
   message : {MsgPlain, MsgBang, MsgShort}, source : {"noisy-svc"},
   priority_hint : {"MEDIUM"}, timestamp : {Some(now)}, channel : {"push"},
   dedupe_key : {NULL}, expires_at : {NULL}]

\* the time from one call to the next, in ms: 5 minutes, 8 minutes
Gaps == {300 * MsPerSec, 480 * MsPerSec}

\* one call of evaluate(event) from start to return, the next call minutes later
EvaluateSpaced ==
  /\ nEvals < MaxSpaced
  /\ \E e \in SpacedEventsAt(clock) :
     \E ai \in TurnAiAnswers(Guards(World, e, clock, getRedis(connected, rejecting),
                                    rulesFile)) :
       Return(e, getRedis(connected, rejecting), ai, 0, FALSE,
              evaluate(World, e, nEvals + 1, clock, getRedis(connected, rejecting),
                       rulesFile, ai, 0, FALSE))
  /\ nEvals' = nEvals + 1
  /\ \E d \in Gaps : clock' = clock + d
  /\ UNCHANGED <<connected, rejecting, rulesFile, nEnv, inflight, reloadFailed>>

WindowSpec == InitTurns /\ [][EvaluateSpaced]_vars

-----------------------------------------------------------------------------
(* The same event submitted again while its first call is in flight *)

\* one event, submitted as MEDIUM or HIGH: the fingerprint is the same
TwinEventsAt(now) ==
  [user_id : {"u1"}, event_type : {"direct_message"}, message : {MsgPlain},
   source : {"chat-svc"}, priority_hint : {"HIGH", "MEDIUM"}, timestamp : {Some(now)},
   channel : {"push"}, dedupe_key : {NULL}, expires_at : {NULL}]

\* a call of evaluate(event) passes the dedup probe and the stages up to 6 and
\* waits for the AI service, its fingerprint not yet stored
BeginTwin ==
  /\ nEvals < MaxTwins /\ Cardinality(inflight) < MaxInflight
  /\ \E e \in TwinEventsAt(clock) :
       /\ Guards(World, e, clock, getRedis(connected, rejecting), rulesFile).kind = "score"
       /\ cachedRules' = getRules(cachedRules, rulesFile)
       /\ inflight' = inflight \cup
            {Suspended(nEvals + 1, e,
                       Guards(World, e, clock, getRedis(connected, rejecting), rulesFile),
                       clock, getRedis(connected, rejecting))}
  /\ nEvals' = nEvals + 1
  /\ clock' = clock + 1
  /\ UNCHANGED <<connected, rejecting, kvStr, kvZ, rulesFile, auditStore, historyStore,
                 deferredQueue, delivered, last, nEnv, reloadFailed>>

\* a call that the dedup guard or the DND stage ends
TwinAtOnce ==
  /\ nEvals < MaxTwins
  /\ \E e \in TwinEventsAt(clock) :
       /\ Guards(World, e, clock, getRedis(connected, rejecting), rulesFile).kind # "score"
       /\ Return(e, getRedis(connected, rejecting), NULL, 0, FALSE,
                 evaluate(World, e, nEvals + 1, clock, getRedis(connected, rejecting),
                          rulesFile, NULL, 0, FALSE))
  /\ nEvals' = nEvals + 1
  /\ clock' = clock + 1
  /\ UNCHANGED <<connected, rejecting, rulesFile, nEnv, inflight, reloadFailed>>

NextTwins ==
  \/ BeginTwin
  \/ FinishCall
  \/ TwinAtOnce

TwinSpec == InitTurns /\ [][NextTwins]_vars

-----------------------------------------------------------------------------
(* The deferred queue and its timer *)

\* a faulty variant of processDeferredQueue: every PENDING entry is dispatched
processDeferredQueueAllPending(queue, now, fails) ==
  [i \in DOMAIN queue |->
     IF queue[i].status = "PENDING"
     THEN [queue[i] EXCEPT !.status = IF i \in fails THEN "FAILED" ELSE "DISPATCHED"]
     ELSE queue[i]]

\* the entries that are PENDING and due are marked DISPATCHED, or FAILED when
\* the dispatch of the entry raises (the entries whose index is in fails)
processDeferredQueue(queue, now, fails) ==
  [i \in DOMAIN queue |->
     IF queue[i].status = "PENDING" /\ queue[i].scheduleAt <= now
     THEN [queue[i] EXCEPT !.status = IF i \in fails THEN "FAILED" ELSE "DISPATCHED"]
     ELSE queue[i]]

\* the n-th event: LOW (deferred by its score outside the DND window) or HIGH
QueuedEventsAt(n, now) ==
  [user_id : {"u1"}, event_type : {TurnType(n)}, message : {MsgShort},
   source : {TurnSource(n)}, priority_hint : {"LOW", "HIGH"},
   timestamp : {Some(now)}, channel : {"push"}, dedupe_key : {NULL}, expires_at : {NULL}]

\* the time between two looks at the clock: the 30 s of the timer, 15 minutes, 5 hours
TimerGaps == {30 * MsPerSec, 15 * MsPerMin, 5 * MsPerHour}

EvaluateQueued ==
  /\ nEvals < MaxQueued
  /\ \E e \in QueuedEventsAt(nEvals + 1, clock) :
       Return(e, getRedis(connected, rejecting),
              IF Guards(World, e, clock, getRedis(connected, rejecting), rulesFile).kind
                   = "score" THEN Some(5) ELSE NULL,
              0, FALSE,
              evaluate(World, e, nEvals + 1, clock, getRedis(connected, rejecting),
                       rulesFile,
                       IF Guards(World, e, clock, getRedis(connected, rejecting),
                                 rulesFile).kind = "score" THEN Some(5) ELSE NULL,
                       0, FALSE))
  /\ nEvals' = nEvals + 1
  /\ clock' = clock + 1
  /\ UNCHANGED <<connected, rejecting, rulesFile, nEnv, inflight, reloadFailed>>

\* time passes
Wait ==
  /\ nEnv < MaxTimer
  /\ \E d \in TimerGaps :
       /\ clock' = clock + d
       /\ kvStr' = ExpireKeys(kvStr, clock + d)
       /\ kvZ' = ExpireKeys(kvZ, clock + d)
  /\ nEnv' = nEnv + 1
  /\ UNCHANGED <<connected, rejecting, cachedRules, rulesFile, auditStore, historyStore,
                 deferredQueue, delivered, last, nEvals, inflight, reloadFailed>>

\* setInterval(processDeferredQueue, 30000): one run of the timer
ProcessDeferredQueue ==
  /\ nEnv < MaxTimer
  /\ \E fails \in SUBSET {i \in DOMAIN deferredQueue :
                            /\ deferredQueue[i].status = "PENDING"
                            /\ deferredQueue[i].scheduleAt <= clock} :
       deferredQueue' = processDeferredQueue(deferredQueue, clock, fails)
  /\ last' = [made |-> FALSE, run |-> clock]
  /\ nEnv' = nEnv + 1
  /\ UNCHANGED <<clock, connected, rejecting, kvStr, kvZ, cachedRules, rulesFile,
                 auditStore, historyStore, delivered, nEvals, inflight, reloadFailed>>

\* POST /v1/notifications/override: forceOverride logs and answers
ForceOverride ==
  /\ \E id \in {r.audit_id : r \in auditStore}, to \in {"NOW", "NEVER"} :
       last' = [made |-> FALSE,
                override |-> [success |-> TRUE, notification_id |-> id,
                              override_to |-> to, override_at |-> clock]]
  /\ UNCHANGED <<clock, connected, rejecting, kvStr, kvZ, cachedRules, rulesFile,
                 auditStore, historyStore, deferredQueue, delivered, nEvals, nEnv,
                 inflight, reloadFailed>>

NextQueue ==
  \/ EvaluateQueued
  \/ Wait
  \/ ProcessDeferredQueue
  \/ ForceOverride

QueueSpec == InitTurns /\ [][NextQueue]_vars

-----------------------------------------------------------------------------
(* Rules saved through the API, the file edited, the reload timer *)

\* RULE_RELOAD_INTERVAL_MS
ReloadInterval == 30000

\* a faulty variant of saveRule: the rule is pushed even when its rule_id exists
saveRuleAppendOnly(file, rule) ==
  Some((IF IsNull(file) THEN <<>> ELSE Val(file)) \o <<rule>>)

\* the file saveRule writes: the rules read (none when the file cannot be
\* read), the rule of the same rule_id replaced, or else the rule appended
saveRule(file, rule) ==
  IF IsNull(file) THEN Some(<<rule>>)
  ELSE IF \E i \in DOMAIN Val(file) : Val(file)[i].rule_id = rule.rule_id
  THEN Some([i \in DOMAIN Val(file) |->
               IF i = CHOOSE j \in DOMAIN Val(file) :
                        /\ Val(file)[j].rule_id = rule.rule_id
                        /\ \A k \in 1..(j - 1) : Val(file)[k].rule_id # rule.rule_id
               THEN rule ELSE Val(file)[i]])
  ELSE Some(Append(Val(file), rule))

\* the rules operators save: the direct_message rule enabled and disabled
SavedRules == {RuleDm, RuleOff}

SavedEventsAt(now) ==
  [user_id : {"u1"}, event_type : {"direct_message"}, message : {MsgPlain, MsgShort},
   source : {"noisy-svc"}, priority_hint : {"MEDIUM"}, timestamp : {Some(now)},
   channel : {"push"}, dedupe_key : {NULL}, expires_at : {NULL}]

\* POST /v1/rules: saveRule(rule) writes the file and reloads, or fails to write
SaveRule ==
  /\ nEnv < MaxFileSteps
  /\ \E rule \in SavedRules, written \in BOOLEAN :
       IF written
       THEN /\ rulesFile' = saveRule(rulesFile, rule)
            /\ cachedRules' = loadRules(cachedRules, saveRule(rulesFile, rule))
            /\ last' = [made |-> FALSE, saved |-> rule, step |-> nEnv + 1]
       ELSE /\ last' = [made |-> FALSE, saveFailed |-> rule, step |-> nEnv + 1]
            /\ UNCHANGED <<rulesFile, cachedRules>>
  /\ nEnv' = nEnv + 1
  /\ UNCHANGED <<clock, connected, rejecting, kvStr, kvZ, auditStore, historyStore,
                 deferredQueue, delivered, nEvals, inflight, reloadFailed>>

\* half a reload interval passes; at the end of an interval the timer runs loadRules
HalfInterval ==
  /\ clock < 12 * MsPerHour + MaxIntervals * ReloadInterval
  /\ clock' = clock + ReloadInterval \div 2
  /\ kvStr' = ExpireKeys(kvStr, clock')
  /\ kvZ' = ExpireKeys(kvZ, clock')
  /\ IF clock' % ReloadInterval = 0
     THEN /\ cachedRules' = loadRules(cachedRules, rulesFile)
          /\ reloadFailed' = IsNull(rulesFile)
     ELSE UNCHANGED <<cachedRules, reloadFailed>>
  /\ UNCHANGED <<connected, rejecting, rulesFile, auditStore, historyStore,
                 deferredQueue, delivered, last, nEvals, nEnv, inflight>>

EvaluateSaved ==
  /\ nEvals < MaxEvals
  /\ \E e \in SavedEventsAt(clock) :
     \E ai \in TurnAiAnswers(Guards(World, e, clock, getRedis(connected, rejecting),
                                    rulesFile)) :
       Return(e, getRedis(connected, rejecting), ai, 0, FALSE,
              evaluate(World, e, nEvals + 1, clock, getRedis(connected, rejecting),
                       rulesFile, ai, 0, FALSE))
  /\ nEvals' = nEvals + 1
  /\ UNCHANGED <<clock, connected, rejecting, rulesFile, nEnv, inflight, reloadFailed>>

NextSaved ==
  \/ EvaluateSaved
  \/ RulesFileChanges
  \/ SaveRule
  \/ HalfInterval

SaveSpec == InitRuled /\ [][NextSaved]_vars

-----------------------------------------------------------------------------
(* Rule matching over snapshots *)

\* a rule saved through POST /v1/rules with a blank source field
RuleBlank ==
  [rule_id |-> "blank-source", condition |-> [event_type |-> "promotion", source |-> ""],
   action |-> "SUPPRESS", priority |-> 50, enabled |-> TRUE]

MatchRulePool == {RuleSendNow, RuleVip, RuleSlowInApp, RulePromoCap, RuleBlank}

\* the snapshots: up to MaxSnapshot different rules of the pool, in any order
Snapshots ==
  {s \in UNION {[1..n -> MatchRulePool] : n \in 0..MaxSnapshot} :
     \A i, j \in DOMAIN s : i # j => s[i] # s[j]}

MatchEvents ==
  {[event_type |-> "promotion", channel |-> "push", source |-> "noisy-svc",
    priority_hint |-> "HIGH"],
   [event_type |-> "low_value_promo", channel |-> "in-app", source |-> "billing-svc",
    priority_hint |-> "LOW"],
   [event_type |-> "reminder", channel |-> "in-app", source |-> "cal-svc",
    priority_hint |-> "HIGH"]}

InitMatch ==
  /\ clock = 12 * MsPerHour
  /\ connected = TRUE
  /\ rejecting = FALSE
  /\ kvStr = {}
  /\ kvZ = {}
  /\ rulesFile = NULL
  /\ cachedRules \in Snapshots
  /\ auditStore = {}
  /\ historyStore = <<>>
  /\ deferredQueue = <<>>
  /\ delivered = {}
  /\ last = NoCall
  /\ nEvals = 0
  /\ nEnv = 0
  /\ inflight = {}
  /\ reloadFailed = FALSE

\* one call of matchRules(event, cachedRules)
MatchCall ==
  /\ nEnv = 0
  /\ \E e \in MatchEvents :
       last' = [made |-> FALSE, event |-> e, snapshot |-> cachedRules,
                matched |-> matchRules(e, cachedRules)]
  /\ nEnv' = 1
  /\ UNCHANGED <<clock, connected, rejecting, kvStr, kvZ, cachedRules, rulesFile,
                 auditStore, historyStore, deferredQueue, delivered, nEvals, inflight,
                 reloadFailed>>

MatchSpec == InitMatch /\ [][MatchCall]_vars

-----------------------------------------------------------------------------
(* Messages that differ in case and white space *)

\* every message of up to MaxMsgLen characters over "o", "O" and the space
Messages == UNION {[1..n -> {"o", "O", " "}] : n \in 0..MaxMsgLen}

\* reminders of one user and source, with and without a dedupe_key
VariantEventsAt(now) ==
  [user_id : {"u1"}, event_type : {"reminder"}, message : Messages,
   source : {"cal-svc"}, priority_hint : {"MEDIUM"}, timestamp : {Some(now)},
   channel : {"push"}, dedupe_key : {NULL, Some("k1")}, expires_at : {NULL}]

InitVariants ==
  /\ clock = 12 * MsPerHour
  /\ connected = TRUE
  /\ rejecting = FALSE
  /\ kvStr = {}
  /\ kvZ = {}
  /\ rulesFile = QuietRulesJson
  /\ cachedRules = loadRules(<<>>, rulesFile)
  /\ auditStore = {}
  /\ historyStore = <<>>
  /\ deferredQueue = <<>>
  /\ delivered = {}
  /\ last = NoCall
  /\ nEvals = 0
  /\ nEnv = 0
  /\ inflight = {}
  /\ reloadFailed = FALSE

\* one call of evaluate(event), the next call starting at a later millisecond
EvaluateVariant ==
  /\ nEvals < MaxEvals
  /\ \E e \in VariantEventsAt(clock) :
       Return(e, getRedis(connected, rejecting), Some(5), 0, FALSE,
              evaluate(World, e, nEvals + 1, clock, getRedis(connected, rejecting),
                       rulesFile, Some(5), 0, FALSE))
  /\ nEvals' = nEvals + 1
  /\ clock' = clock + 1
  /\ UNCHANGED <<connected, rejecting, rulesFile, nEnv, inflight, reloadFailed>>

NextVariants ==
  \/ EvaluateVariant
  \/ RedisClose
  \/ RedisReady

DedupSpec == InitVariants /\ [][NextVariants]_vars

-----------------------------------------------------------------------------
(* Properties of evaluate *)

\* the audit record stored under the audit_id of the latest Decision
LastAudit == {r \in auditStore : r.audit_id = last.result.audit_id}

DuplicateTypes == {"EXACT_KEY", "EXACT_FINGERPRINT", "NEAR_DUPLICATE"}

\* an evaluate step: the call whose outcome is last'
Called == nEvals' = nEvals + 1

\* C1: a CRITICAL event that is not expired and that the dedup guard does not
\* judge a duplicate is answered NOW, whatever the hour, the fatigue count, the
\* matching rules and the state of Redis
C1_CriticalNow ==
  (last.made /\ last.event.priority_hint = "CRITICAL"
     /\ ~IsExpired(last.event, last.now) /\ last.dup \notin DuplicateTypes)
  => (~last.threw /\ last.result.decision = "NOW")

\* a CRITICAL promotion, which a SUPPRESS rule matches, answered NOW by the
\* CRITICAL short-circuit inside the DND window without Redis
C1_Witness ==
  /\ last.made /\ last.event.priority_hint = "CRITICAL"
  /\ last.event.event_type = "promotion" /\ last.path = "critical"
  /\ checkDND(last.now) /\ last.mode # "ok"
  /\ ~last.threw /\ last.result.decision = "NOW"

\* C2: a fault inside the guarded block is answered NOW with score 90, no
\* schedule and an audit record whose stages are {failsafe: true} when the
\* event is CRITICAL, and is rethrown without a Decision otherwise
C2_Failsafe ==
  (last.made /\ last.faulted)
  => IF last.event.priority_hint = "CRITICAL"
     THEN /\ ~last.threw
          /\ last.result.decision = "NOW"
          /\ last.result.score = FailsafeScore
          /\ IsNull(last.result.schedule_at)
          /\ LastAudit # {}
          /\ \A r \in LastAudit : r.stages = [failsafe |-> TRUE] /\ r.decision = "NOW"
     ELSE last.threw

\* a CRITICAL event whose message is not a string: the fingerprint cannot be
\* built, the failsafe answers
C2_Witness ==
  /\ last.made /\ last.faulted /\ last.failsafe
  /\ last.event.priority_hint = "CRITICAL" /\ last.event.message = NotAString
  /\ last.result.score = FailsafeScore

\* C3: an event whose expires_at is earlier than the clock is answered NEVER
\* with score 0, CRITICAL or not, at the expiry stage: no dedup stage is
\* recorded, no rule is matched, and the KV store and the rules are untouched
C3_ExpiredNever ==
  [][(Called /\ IsExpired(last'.event, clock))
     => /\ ~last'.threw
        /\ last'.result.decision = "NEVER" /\ last'.result.score = 0
        /\ last'.path = "expired" /\ last'.dup = "NONE"
        /\ \A r \in {a \in auditStore' : a.audit_id = last'.result.audit_id} :
             r.stages = [expiry |-> "EXPIRED"] /\ r.rules_matched = <<>>
        /\ kvStr' = kvStr /\ kvZ' = kvZ /\ cachedRules' = cachedRules]_vars

\* an expired CRITICAL event whose dedupe_key is stored, answered NEVER
C3_Witness ==
  /\ last.made /\ IsExpired(last.event, last.now)
  /\ last.event.priority_hint = "CRITICAL"
  /\ redisGet(kvStr, DedupeKey(Val(last.event.dedupe_key)), last.now, "ok")
  /\ last.result.decision = "NEVER" /\ last.path = "expired"

\* C4: an unexpired CRITICAL event whose fingerprint or dedupe_key is stored
\* and within TTL is still answered NOW
C4_CriticalBypassesDedup ==
  [][(Called /\ last'.event.priority_hint = "CRITICAL" /\ last'.mode = "ok"
        /\ ~IsExpired(last'.event, clock) /\ ~FingerprintThrows(last'.event)
        /\ \/ redisGet(kvStr, FpKey(buildFingerprint(last'.event)), clock, "ok")
           \/ /\ ~IsNull(last'.event.dedupe_key)
              /\ redisGet(kvStr, DedupeKey(Val(last'.event.dedupe_key)), clock, "ok"))
     => (~last'.threw /\ last'.result.decision = "NOW")]_vars

\* the fingerprint TTL the claim states, in ms
ClaimedTtlMs(e) ==
  (IF e.event_type \in {"promotion", "low_value_promo"} THEN 86400 ELSE 600) * 1000

\* an event without dedupe_key with the fingerprint of e was answered NOW or
\* LATER, Redis being available, less than the fingerprint TTL before now
DeliveredBefore(e, now) ==
  \E d \in delivered :
    /\ d.fp = buildFingerprint(e) /\ IsNull(d.key)
    /\ d.at <= now /\ now - d.at < ClaimedTtlMs(e)

\* the second call of C5: a non-CRITICAL event, Redis available, no fault
SecondCall ==
  /\ Called /\ last'.mode = "ok" /\ ~last'.faulted
  /\ last'.event.priority_hint # "CRITICAL"
  /\ ~FingerprintThrows(last'.event)
  /\ DeliveredBefore(last'.event, clock)

\* C5 as stated: the second call is answered NEVER, score 0, EXACT_FINGERPRINT
C5_AsStated ==
  [][SecondCall
     => /\ ~last'.threw
        /\ last'.result.decision = "NEVER" /\ last'.result.score = 0
        /\ last'.dup = "EXACT_FINGERPRINT"]_vars

\* C5 amended: the second call is answered NEVER with score 0; as a duplicate
\* of type EXACT_FINGERPRINT when the event is not expired and its dedupe_key,
\* if any, is not stored; at the expiry stage when it is expired; as a
\* duplicate of type EXACT_KEY when its dedupe_key is stored
C5_DuplicateNever ==
  [][SecondCall
     => /\ ~last'.threw
        /\ last'.result.decision = "NEVER" /\ last'.result.score = 0
        /\ IF IsExpired(last'.event, clock)
           THEN last'.path = "expired" /\ last'.dup = "NONE"
           ELSE IF /\ ~IsNull(last'.event.dedupe_key)
                   /\ redisGet(kvStr, DedupeKey(Val(last'.event.dedupe_key)), clock, "ok")
           THEN last'.dup = "EXACT_KEY"
           ELSE last'.dup = "EXACT_FINGERPRINT"]_vars

\* a promotion whose fingerprint was delivered ten minutes earlier, answered
\* NEVER as an EXACT_FINGERPRINT duplicate
C5_Witness ==
  /\ last.made /\ last.mode = "ok" /\ ~last.faulted
  /\ last.event.priority_hint # "CRITICAL"
  /\ last.dup = "EXACT_FINGERPRINT" /\ last.result.decision = "NEVER"
  /\ \E d \in delivered :
       /\ d.fp = buildFingerprint(last.event) /\ IsNull(d.key)
       /\ d.at < last.now /\ last.now - d.at < ClaimedTtlMs(last.event)

\* the entries of a user's decision history, one per writeAudit call
HistoryLen(hist, user) == IF user \in DOMAIN hist THEN Len(hist[user]) ELSE 0

\* C6: a call that returns a Decision has written exactly one audit record,
\* stored under the Decision's audit_id and equal to it in decision, score,
\* reason and schedule_at, on every exit path
C6_OneAuditRecord ==
  [][(Called /\ ~last'.threw)
     => /\ \E r \in auditStore' :
             /\ r.audit_id = last'.result.audit_id
             /\ r.decision = last'.result.decision
             /\ r.score = last'.result.score
             /\ r.reason = last'.result.reason
             /\ r.schedule_at = last'.result.schedule_at
             /\ auditStore' = AuditSet(auditStore, r)
        /\ Cardinality({r \in auditStore' : r.audit_id = last'.result.audit_id}) = 1
        /\ HistoryLen(historyStore', last'.event.user_id)
             = HistoryLen(historyStore, last'.event.user_id) + 1]_vars

\* every exit path has returned a Decision with its audit record: the
\* failsafe in the latest call, another path in the call before it
C6_Witness ==
  /\ last.made /\ last.failsafe /\ ~last.threw
  /\ \E r \in auditStore :
       r.audit_id = last.result.audit_id /\ r.stages = [failsafe |-> TRUE]
  /\ \E r \in auditStore :
       r.audit_id # last.result.audit_id /\ r.decision = "NEVER"

\* C7: a fault of scheduleDeferred while a LATER decision is finalized is not
\* surfaced: the call still returns the LATER Decision
C7_ScheduleFaultSwallowed ==
  (last.made /\ last.schedFault) => (~last.threw /\ last.result.decision = "LATER")

\* C8: a returned Decision carries a schedule_at iff it is LATER; the failsafe
\* NOW carries none
C8_ScheduleIffLater ==
  (last.made /\ ~last.threw)
  => /\ ~IsNull(last.result.schedule_at) <=> last.result.decision = "LATER"
     /\ last.failsafe => IsNull(last.result.schedule_at)

\* a LATER decision of the DND stage with its schedule, queued
C8_Witness ==
  /\ last.made /\ ~last.threw /\ last.path = "dnd"
  /\ last.result.decision = "LATER" /\ ~IsNull(last.result.schedule_at)
  /\ last.queued

\* C9: a call that ends at the expiry guard, the dedup guard or a SUPPRESS
\* rule leaves the KV store as it was: no key written, no TTL extended
C9_GuardExitsLeaveKv ==
  [][(Called /\ last'.path \in {"expired", "duplicate", "suppressed"})
     => (kvStr' = kvStr /\ kvZ' = kvZ)]_vars

\* a promotion suppressed by the operator rule while the KV store holds the
\* fingerprint and the counters of an earlier notification
C9_Witness ==
  /\ last.made /\ last.path = "suppressed" /\ last.mode = "ok"
  /\ kvStr # {} /\ kvZ # {}

\* C10: a call that returns NEVER adds no entry to the user's freq total
\* counter and stores no fingerprint
C10_NeverWritesNothing ==
  [][(Called /\ ~last'.threw /\ last'.result.decision = "NEVER")
     => /\ kvStr' = kvStr
        /\ ZMembers(kvZ', FreqKey(last'.event.user_id, "total"), clock)
             \subseteq ZMembers(kvZ, FreqKey(last'.event.user_id, "total"), clock)]_vars

-----------------------------------------------------------------------------
(* Properties of the scoring stages *)

\* the call whose outcome is last' went through the scoring stages
Scored == Called /\ last'.path \in {"conflict", "boundary"}

\* the fatigue answer and the AI adjustment the call whose outcome is last' met
FatigueMet == getFatiguePenalty(kvZ, last'.event.user_id, clock, last'.mode)
AiMet == IF IsNull(last'.ai) THEN 0 ELSE Val(last'.ai)

\* C11: the score of a returned Decision is an integer in 0..100; on the
\* scored path it is base - fatigue_penalty + ai_adjustment clamped to
\* [0, 100], with base in 0..75, the penalty in {0, 5, 10, 20, 30} and the
\* adjustment in -10..15
C11_ScoreInRange ==
  [][(Called /\ ~last'.threw)
     => /\ last'.result.score \in 0..MaxScore
        /\ Scored
           => /\ computeScore(last'.event, clock) \in 0..MaxBase
              /\ FatigueMet.penalty \in {0, 5, 10, 20, 30}
              /\ AiMet \in (0 - AiFloor)..AiCeil
              /\ last'.result.score
                   = Max(0, Min(MaxScore, computeScore(last'.event, clock)
                                            - FatigueMet.penalty + AiMet))]_vars

\* the call whose outcome is last' met an event that is not expired, that the
\* dedup guard passed, that is not CRITICAL and that no SUPPRESS rule matches
PastHardGuards ==
  /\ Called
  /\ ~IsExpired(last'.event, clock)
  /\ last'.dup = "PASS"
  /\ last'.event.priority_hint # "CRITICAL"
  /\ IsNull(FindSuppress(matchRules(last'.event, getRules(cachedRules, rulesFile))))

\* the audit records written under the audit_id of the call whose outcome is last'
AuditWritten == {r \in auditStore' : r.audit_id = last'.result.audit_id}

\* C12: from 23:00 to 08:00 an event that passes the expiry, dedup, CRITICAL
\* and SUPPRESS guards is decided LATER with score 35 at the DND stage, with no
\* scorer, fatigue, AI or conflict stage taking part; from 08:00 to 23:00 no
\* call ends at the DND stage
C12_DndDefers ==
  [][PastHardGuards
     => IF HourOf(clock) >= 23 \/ HourOf(clock) < 8
        THEN /\ last'.path = "dnd"
             /\ AuditWritten # {}
             /\ \A r \in AuditWritten :
                  /\ r.decision = "LATER" /\ r.score = 35
                  /\ DOMAIN r.stages = {"expiry", "dedup", "rules", "dnd"}
             /\ ~last'.threw => (last'.result.decision = "LATER" /\ last'.result.score = 35)
        ELSE last'.path \in {"conflict", "boundary"}]_vars

\* at 03:00 a LOW low_value_promo of a user at the fatigue cap, which the
\* scoring stages would drop, is deferred with score 35
C12_Witness ==
  /\ last.made /\ last.path = "dnd" /\ last.mode = "ok" /\ ~last.threw
  /\ HourOf(last.now) = 3
  /\ last.event.priority_hint = "LOW" /\ last.event.event_type = "low_value_promo"
  /\ ZCount(kvZ, FreqKey("u1", "total"), last.now - W1H * MsPerSec, last.now, last.now)
       = CapTotal
  /\ last.result.decision = "LATER" /\ last.result.score = 35

\* the first 08:00 strictly after instant t
NextEight(t) ==
  IF t % (24 * 3600000) < 8 * 3600000
  THEN (t \div (24 * 3600000)) * (24 * 3600000) + 8 * 3600000
  ELSE (t \div (24 * 3600000) + 1) * (24 * 3600000) + 8 * 3600000

\* the instant the latest call returned: its last reading of the clock
ReturnedAt == last.now + last.lapse

\* C13: the schedule_at of a returned LATER decision lies strictly after the
\* instant the call returns: the next 08:00 for a DND deferral, 15 minutes
\* ahead for a conflict deferral, 2 to 5 hours ahead at the boundary for
\* promotion, low_value_promo and system_update, 15 to 45 minutes ahead for
\* the other event types
C13_ScheduleAhead ==
  (last.made /\ ~last.threw /\ last.result.decision = "LATER")
  => /\ Val(last.result.schedule_at) > ReturnedAt
     /\ last.path = "dnd" => Val(last.result.schedule_at) = NextEight(ReturnedAt)
     /\ last.path = "conflict" => Val(last.result.schedule_at) = last.now + 15 * 60000
     /\ last.path = "boundary"
        => IF last.event.event_type \in {"promotion", "low_value_promo", "system_update"}
           THEN /\ Val(last.result.schedule_at) >= last.now + 2 * 3600000
                /\ Val(last.result.schedule_at) <= last.now + 5 * 3600000
           ELSE /\ Val(last.result.schedule_at) >= last.now + 15 * 60000
                /\ Val(last.result.schedule_at) <= last.now + 45 * 60000

\* the SUPPRESS rules of the snapshot getRules answers that match event e
SuppressingIds(e) ==
  {getRules(cachedRules, rulesFile)[i].rule_id :
     i \in {j \in 1..Len(getRules(cachedRules, rulesFile)) :
              /\ getRules(cachedRules, rulesFile)[j].action = "SUPPRESS"
              /\ matchesCondition(e, getRules(cachedRules, rulesFile)[j].condition)}}

\* C14: an event that passes the expiry, dedup and CRITICAL guards and that a
\* SUPPRESS rule of the snapshot matches is answered NEVER with score 0 and a
\* reason naming a matching SUPPRESS rule, at any hour and whatever other
\* rules match with a higher priority
C14_SuppressWins ==
  [][(Called /\ ~IsExpired(last'.event, clock) /\ last'.dup = "PASS"
        /\ last'.event.priority_hint # "CRITICAL"
        /\ SuppressingIds(last'.event) # {})
     => /\ ~last'.threw
        /\ last'.result.decision = "NEVER" /\ last'.result.score = 0
        /\ \E id \in SuppressingIds(last'.event) :
             last'.result.reason = <<"Suppressed by operator rule", id>>]_vars

\* inside the DND window, a HIGH low_value_promo matched by the SEND_NOW, the
\* DEFER and the CAP rule, all of higher priority than the SUPPRESS rule
C14_Witness ==
  /\ last.made /\ last.path = "suppressed" /\ checkDND(last.now)
  /\ last.result.decision = "NEVER"
  /\ \E r \in LastAudit :
       r.rules_matched = <<"vip", "slow-in-app", "promo-cap", "mute-noisy-promo">>

\* a list of rules without its DEFER, SEND_NOW and CAP rules
OnlySuppress(rs) == SelectSeq(rs, LAMBDA r : r.action = "SUPPRESS")

\* the call whose outcome is last', made again from the same state with the
\* same inputs while the snapshot and the rules file hold the SUPPRESS rules only
WithoutAnnotatingRules ==
  evaluate([World EXCEPT !.rules = OnlySuppress(cachedRules), !.lapse = last'.lapse],
           last'.event, last'.result.audit_id, clock, last'.mode,
           IF IsNull(rulesFile) THEN NULL ELSE Some(OnlySuppress(Val(rulesFile))),
           last'.ai, last'.k, last'.schedFault)

\* an audit record without what it says about the rules
RulesBlind(rec) ==
  [rec EXCEPT !.rules_matched = <<>>,
              !.stages = [key \in DOMAIN rec.stages \ {"rules"} |-> rec.stages[key]]]

C16_BoundaryByScore ==
  (last.made /\ last.path = "boundary")
  => \A r \in LastAudit :
       /\ r.decision = "NOW" <=> Ge(r.score, 60)
       /\ r.decision = "LATER" <=> (Ge(r.score, 30) /\ Lt(r.score, 60))
       /\ r.decision = "NEVER" <=> Lt(r.score, 30)

\* C17: a HIGH event that reaches the conflict resolver while the fatigue
\* level is MAXED is decided LATER by the resolver, scheduled 15 minutes
\* ahead, whatever its final score
C17_HighMaxedDeferred ==
  [][(Scored /\ last'.event.priority_hint = "HIGH" /\ FatigueMet.level = "MAXED")
     => /\ last'.path = "conflict"
        /\ AuditWritten # {}
        /\ \A r \in AuditWritten :
             r.decision = "LATER" /\ r.schedule_at = Some(clock + 15 * 60000)
        /\ ~last'.threw
           => /\ last'.result.decision = "LATER"
              /\ last'.result.schedule_at = Some(clock + 15 * 60000)]_vars

\* a HIGH security_alert of final score 60 (base 75, penalty 30, adjustment
\* 15), deferred by 15 minutes
C17_Witness ==
  /\ last.made /\ last.path = "conflict" /\ ~last.threw
  /\ last.event.priority_hint = "HIGH" /\ last.result.score = 60
  /\ last.result.decision = "LATER"
  /\ last.result.schedule_at = Some(last.now + 15 * 60000)

\* C18: a HIGH event that reaches the scoring stages while the fatigue
\* penalty is 20 or more (level HIGH or MAXED) is not decided NEVER, whatever
\* its source, event type, channel, freshness and (numeric) AI adjustment
C18_HighNotDropped ==
  [][(Scored /\ last'.event.priority_hint = "HIGH" /\ FatigueMet.penalty >= 20
        /\ last'.ai # Some(NaN))
     => /\ \A r \in AuditWritten : r.decision # "NEVER"
        /\ ~last'.threw => last'.result.decision # "NEVER"]_vars

\* the call whose outcome is last' met a MEDIUM event past the hard guards,
\* between 08:00 and 23:00, while the user's total counter in Redis holds at
\* least 5 entries of the past hour
MediumAtCap ==
  /\ PastHardGuards
  /\ last'.event.priority_hint = "MEDIUM"
  /\ HourOf(clock) >= 8 /\ HourOf(clock) < 23
  /\ ZCount(kvZ, FreqKey(last'.event.user_id, "total"), clock - 3600000, clock, clock) >= 5

\* the call whose outcome is last' was decided NEVER by conflict rule 3
NeverByRuleThree ==
  /\ ~last'.threw
  /\ last'.path = "conflict"
  /\ last'.result.decision = "NEVER"
  /\ last'.result.reason = <<"CONFLICT RESOLVED", 3>>

\* C19 as stated: such a MEDIUM event is decided NEVER (by conflict rule 3),
\* whatever its final score
C19_AsStated ==
  [][MediumAtCap => \A r \in AuditWritten : r.decision = "NEVER"]_vars

\* C19 amended: such a MEDIUM event is decided NEVER by conflict rule 3 when
\* Redis is connected and answers the fatigue read
C19_MediumMaxedNever == [][(MediumAtCap /\ last'.mode = "ok") => NeverByRuleThree]_vars

\* a MEDIUM security_alert of final score 50, which the boundary would
\* defer, dropped by conflict rule 3
C19_Witness ==
  /\ last.made /\ last.mode = "ok" /\ last.path = "conflict"
  /\ last.event.priority_hint = "MEDIUM" /\ last.result.score = 50
  /\ last.result.decision = "NEVER"

\* the call whose outcome is last' passed the guards and called getAiScore,
\* which raised (timeout, HTTP error)
AiFailed ==
  /\ Called
  /\ Guards(World, last'.event, clock, last'.mode, rulesFile).kind = "score"
  /\ IsNull(last'.ai)

\* the same call from the same state, getAiScore answering an adjustment of 0
WithAdjustmentZero ==
  evaluate([World EXCEPT !.lapse = last'.lapse], last'.event, last'.result.audit_id,
           clock, last'.mode, rulesFile, Some(0), last'.k, last'.schedFault)

\* C20: a call in which getAiScore raises does not fail for that: it ends as
\* the same call with an adjustment of 0 ends, with the same Decision and
\* score, and its audit record has the AI stage as SKIPPED
C20_AiFaultSkipped ==
  [][AiFailed
     => /\ last'.threw = WithAdjustmentZero.threw
        /\ last'.threw => last'.schedFault
        /\ last'.result = WithAdjustmentZero.result
        /\ AuditWritten # {}
        /\ \A r \in AuditWritten :
             /\ r.stages.ai = "SKIPPED"
             /\ r.score = FinalScore(computeScore(last'.event, clock),
                                     FatigueMet.penalty, 0)
        /\ \A r \in {a \in WithAdjustmentZero.w.audit :
                        a.audit_id = last'.result.audit_id} :
             r.stages.ai = "OK"
             /\ \A q \in AuditWritten : r.decision = q.decision /\ r.score = q.score]_vars

\* getAiScore raised and the event was still sent at once on its own score
C20_Witness ==
  /\ last.made /\ IsNull(last.ai) /\ last.path = "boundary" /\ ~last.threw
  /\ last.result.decision = "NOW" /\ last.result.score >= 60
  /\ \E r \in LastAudit : r.stages.ai = "SKIPPED"

-----------------------------------------------------------------------------
(* Properties of the failure paths, the caps and the audit log *)

C23_UnreadableUnknown ==
  [][Scored /\ last'.mode # "ok"
     => /\ FatigueMet = [count |-> 0, penalty |-> 0, level |-> "UNKNOWN"]
        /\ \A r \in AuditWritten : r.stages.fatigue = "UNKNOWN" /\ r.stages.conflict = 0]_vars

TotalBefore == ZMembers(kvZ, FreqKey(last'.event.user_id, "total"), clock)
TotalAfter == ZMembers(kvZ', FreqKey(last'.event.user_id, "total"), clock)

\* C30: with Redis available, every call that returns NOW or LATER without
\* the failsafe, by whichever path, leaves in freq:<user>:total an entry with
\* the instant of the call as its score that was not there before
C30_CountedWhenSent ==
  [][Called /\ last'.mode = "ok" /\ ~last'.threw /\ ~last'.failsafe
            /\ last'.result.decision \in {"NOW", "LATER"}
     => \E x \in TotalAfter \ TotalBefore : x.s = clock]_vars

\* C29: the record getAuditLog finds under the audit_id of a returned Decision
\* carries its decision, score and reason; a later call takes an audit_id that
\* was never issued and leaves every record of the log as it was; an id that
\* was never issued finds nothing
C29_AuditAppendOnly ==
  [][Called
     => /\ ~last'.threw
             => /\ ~IsNull(getAuditLog(auditStore', last'.result.audit_id))
                /\ \A r \in AuditWritten :
                     /\ r.decision = last'.result.decision
                     /\ r.score = last'.result.score
                     /\ r.reason = last'.result.reason
        /\ \A r \in auditStore : r \in auditStore'
        /\ \A r \in auditStore' \ auditStore : r.audit_id \notin UsedIds
        /\ \A id \in (1..NumAuditIds) \ {r.audit_id : r \in auditStore'} :
             IsNull(getAuditLog(auditStore', id))]_vars

\* the call whose outcome is last' got as far as the rules stage
AtRules ==
  /\ Called /\ ~IsExpired(last'.event, clock) /\ last'.dup = "PASS"
  /\ last'.event.priority_hint # "CRITICAL"

\* C21: while config/rules.json cannot be read or parsed no step changes the
\* cached rules, neither the reload timer nor an evaluate call, and every
\* evaluate call that reaches the rules stage matches against the cache: it is
\* suppressed iff a cached SUPPRESS rule matches, and the audit record lists
\* the cached rules that match
C21_FailedReloadKeepsCache ==
  [][IsNull(rulesFile)
     => /\ cachedRules' = cachedRules
        /\ AtRules
             => /\ (last'.path = "suppressed")
                     = \E i \in 1..Len(cachedRules) :
                          /\ cachedRules[i].action = "SUPPRESS"
                          /\ matchesCondition(last'.event, cachedRules[i].condition)
                /\ \A r \in AuditWritten :
                     {r.rules_matched[i] : i \in 1..Len(r.rules_matched)}
                       = {cachedRules[i].rule_id :
                            i \in {j \in 1..Len(cachedRules) :
                                     matchesCondition(last'.event,
                                                      cachedRules[j].condition)}}]_vars

\* the timer failed on an unreadable file, and a call made afterwards was
\* suppressed by a rule of the snapshot loaded before
C21_Witness ==
  /\ IsNull(rulesFile) /\ reloadFailed /\ cachedRules # <<>>
  /\ last.made /\ last.path = "suppressed"

\* the non-CRITICAL events of the user and source of d that were decided NOW,
\* Redis being up, within the hour that starts with d
NowInHourFrom(d, sameSource) ==
  {x \in delivered :
     /\ x.decision = "NOW" /\ x.priority # "CRITICAL"
     /\ x.fp[1] = d.fp[1]
     /\ sameSource => x.fp[4] = d.fp[4]
     /\ d.at <= x.at /\ x.at < d.at + 3600000}

\* C25: for any user and any source, no more than 2 non-CRITICAL events of
\* that source are decided NOW within any hour, the calls running one after
\* the other
C25_SourceCapHolds ==
  \A d \in delivered : Cardinality(NowInHourFrom(d, TRUE)) <= 2

\* the event of scenario S3 reached the call whose outcome is last': a fresh
\* HIGH direct_message on push, not expired, not a duplicate, no rule
\* matching, no counter entry of the user, an AI adjustment of +5
FreshDirectMessage ==
  /\ Called
  /\ last'.event.event_type = "direct_message" /\ last'.event.priority_hint = "HIGH"
  /\ last'.event.channel = "push"
  /\ ~IsNull(last'.event.timestamp) /\ clock - Val(last'.event.timestamp) < 60000
  /\ ~IsExpired(last'.event, clock) /\ last'.dup = "PASS"
  /\ matchRules(last'.event, getRules(cachedRules, rulesFile)) = <<>>
  /\ TotalBefore = {}
  /\ last'.path \in {"conflict", "boundary"} => last'.ai = Some(5)

RECURSIVE RunLen(_)
RunLen(s) == IF s = <<>> \/ Head(s) \in WhiteSpace THEN 0 ELSE 1 + RunLen(Tail(s))
RECURSIVE WordList(_)
WordList(s) ==
  IF s = <<>> THEN <<>>
  ELSE IF Head(s) \in WhiteSpace THEN WordList(Tail(s))
  ELSE <<SubSeq(s, 1, RunLen(s))>> \o WordList(SubSeq(s, RunLen(s) + 1, Len(s)))

\* two messages differ only in letter case and in runs of white space: the
\* same words, letter for letter but for the case
SameButCaseAndSpace(m1, m2) ==
  /\ Len(WordList(m1)) = Len(WordList(m2))
  /\ \A i \in 1..Len(WordList(m1)) :
       /\ Len(WordList(m1)[i]) = Len(WordList(m2)[i])
       /\ \A j \in 1..Len(WordList(m1)[i]) :
            \/ WordList(m1)[i][j] = WordList(m2)[i][j]
            \/ {WordList(m1)[i][j], WordList(m2)[i][j]} = {"o", "O"}

\* the events answered NOW or LATER before, whose fingerprint Redis still
\* holds and can be asked for, that agree with the event of the call whose
\* outcome is last' on user, event type and source, their messages differing
\* in case and white space only
StoredTwins ==
  {d \in delivered :
     /\ d.fp[1] = last'.event.user_id /\ d.fp[2] = last'.event.event_type
     /\ d.fp[4] = last'.event.source
     /\ SameButCaseAndSpace(d.message, last'.event.message)
     /\ \E r \in kvStr : r.key = FpKey(d.fp) /\ Live(r, clock)}

\* C28 as stated: the second event has the fingerprint of the first and is
\* judged an EXACT_FINGERPRINT duplicate
C28_AsStated ==
  [][Called /\ last'.mode = "ok" /\ ~IsExpired(last'.event, clock)
     => \A d \in StoredTwins :
          /\ buildFingerprint(last'.event) = d.fp
          /\ last'.dup = "EXACT_FINGERPRINT"]_vars

\* C28: the second event has the fingerprint of the first and is judged a
\* duplicate: EXACT_KEY when it carries a dedupe_key that Redis holds,
\* EXACT_FINGERPRINT otherwise
C28_SameFingerprint ==
  [][Called /\ last'.mode = "ok" /\ ~IsExpired(last'.event, clock)
     => \A d \in StoredTwins :
          /\ buildFingerprint(last'.event) = d.fp
          /\ last'.dup =
               IF /\ ~IsNull(last'.event.dedupe_key)
                  /\ \E r \in kvStr : /\ r.key = DedupeKey(Val(last'.event.dedupe_key))
                                       /\ Live(r, clock)
               THEN "EXACT_KEY" ELSE "EXACT_FINGERPRINT"]_vars

\* "O o " after "o  o": another message, the same fingerprint, a duplicate
C28_Witness ==
  /\ last.made /\ last.dup = "EXACT_FINGERPRINT"
  /\ last.event.message = <<"O", " ", "o", " ">>
  /\ \E d \in delivered : /\ d.message = <<"o", " ", " ", "o">>
                           /\ d.fp = buildFingerprint(last.event)

-----------------------------------------------------------------------------
(* Properties of the counters, the rules, the queue and the users *)

\* the count of entries within the hour, held by Redis when ReadFatigue ran
CountRead == Cardinality(ZMembers(kvZ, FreqKey("u1", "total"), clock))

C39_RuleFourNeverFires ==
  [][Called /\ last'.event.priority_hint = "LOW"
     => \A r \in AuditWritten :
          /\ r.reason # <<"CONFLICT RESOLVED", 4>>
          /\ "conflict" \in DOMAIN r.stages => r.stages.conflict # 4
          /\ ("fatigue" \in DOMAIN r.stages /\ r.stages.fatigue = "MAXED")
             => /\ ~Ge(r.score, 41)
                /\ r.score # NaN
                   => r.score = Max(0, r.stages.scorer - 30
                                       + (IF IsNull(last'.ai) THEN 0 ELSE Val(last'.ai)))]_vars

\* the best case for rule 4: a fresh LOW security_alert by sms (base 55), five
\* entries in the hour, the largest adjustment: score 40, LATER by the boundary
C39_Witness ==
  /\ last.made /\ ~last.threw /\ last.path = "boundary"
  /\ last.event.priority_hint = "LOW" /\ last.event.event_type = "security_alert"
  /\ last.ai = Some(15)
  /\ last.result.score = 40 /\ last.result.decision = "LATER"
  /\ \E r \in LastAudit : r.stages.fatigue = "MAXED" /\ r.stages.scorer = 55

\* the fields of a rule condition and the event values they are compared with
FieldValue(e, key) ==
  CASE key = "event_type" -> e.event_type [] key = "channel" -> e.channel
    [] key = "source" -> e.source [] key = "priority" -> e.priority_hint

\* every condition field of r is absent, "*" or equal to the event's value
FitsAsStated(e, r) ==
  \A key \in {"event_type", "channel", "source", "priority"} :
    \/ key \notin DOMAIN r.condition
    \/ r.condition[key] = "*"
    \/ r.condition[key] = FieldValue(e, key)

\* the same, a field holding the empty string counted as absent
FitsOrBlank(e, r) ==
  \A key \in {"event_type", "channel", "source", "priority"} :
    \/ key \notin DOMAIN r.condition
    \/ r.condition[key] \in {"", "*"}
    \/ r.condition[key] = FieldValue(e, key)

PosIn(s, r) == CHOOSE i \in DOMAIN s : s[i] = r

\* m holds exactly the rules of the snapshot s that fit, by falling priority,
\* rules of one priority in the order of s
IsMatchOf(m, s, fits) ==
  /\ {m[i] : i \in DOMAIN m} = {s[i] : i \in {k \in DOMAIN s : k \in fits}}
  /\ Len(m) = Cardinality(fits)
  /\ \A i, j \in DOMAIN m :
       i < j => \/ m[i].priority > m[j].priority
                \/ m[i].priority = m[j].priority /\ PosIn(s, m[i]) < PosIn(s, m[j])

\* C35 as stated: matchRules returns exactly the rules whose every condition
\* field is absent, "*" or equal to the event's value, by falling priority
\* with ties in snapshot order, and the snapshot is as it was
C35_ExactMatches ==
  "matched" \in DOMAIN last
  => /\ IsMatchOf(last.matched, last.snapshot,
                  {k \in DOMAIN last.snapshot : FitsAsStated(last.event, last.snapshot[k])})
     /\ cachedRules = last.snapshot

\* what holds of the code: the same with a blank field counted as absent
MatchesOrBlank ==
  "matched" \in DOMAIN last
  => /\ IsMatchOf(last.matched, last.snapshot,
                  {k \in DOMAIN last.snapshot : FitsOrBlank(last.event, last.snapshot[k])})
     /\ cachedRules = last.snapshot

\* the call whose outcome is last' returned a LATER Decision
ReturnsLater == Called /\ ~last'.threw /\ last'.result.decision = "LATER"

\* the step appended one entry to the deferred queue: the event, schedule_at
\* and audit_id of the returned Decision, PENDING, its audit record written
QueuedOnce ==
  /\ Len(deferredQueue') = Len(deferredQueue) + 1
  /\ SubSeq(deferredQueue', 1, Len(deferredQueue)) = deferredQueue
  /\ deferredQueue'[Len(deferredQueue')].event = last'.event
  /\ Some(deferredQueue'[Len(deferredQueue')].scheduleAt) = last'.result.schedule_at
  /\ deferredQueue'[Len(deferredQueue')].auditId = last'.result.audit_id
  /\ deferredQueue'[Len(deferredQueue')].status = "PENDING"
  /\ \E r \in auditStore' :
       /\ r.audit_id = last'.result.audit_id
       /\ r.decision = "LATER"
       /\ r.schedule_at = last'.result.schedule_at

\* C37: a step changes the deferred queue exactly when it is an evaluate call
\* that returns LATER, and then it appends one PENDING entry carrying the
\* event and the schedule_at and audit_id of the returned Decision, whose
\* audit record is in the store
C37_QueuedIffLater ==
  [][IF ReturnsLater THEN QueuedOnce ELSE deferredQueue' = deferredQueue]_vars

\* a second call deferred by the score, queued behind the first entry
C37_Witness ==
  /\ last.made /\ ~last.threw /\ last.result.decision = "LATER"
  /\ last.path = "boundary"
  /\ Len(deferredQueue) = 2
  /\ deferredQueue[2].auditId = last.result.audit_id
  /\ Some(deferredQueue[2].scheduleAt) = last.result.schedule_at
  /\ deferredQueue[2].status = "PENDING"

\* the calls of user u1 that reached incrementCounter (Redis connected) at an
\* instant of the hour that ends now: their audit records carry the conflict stage
UpdatesInHour ==
  {r \in auditStore : /\ r.user_id = "u1" /\ "conflict" \in DOMAIN r.stages
                       /\ clock - 3600000 <= r.created_at /\ r.created_at <= clock}

\* C34 as stated: the count getFatiguePenalty reads is the number of counter
\* updates of the user within the hour, also when two of them were made in
\* one millisecond for one event_type
C34_CountIsUpdates ==
  getFatiguePenalty(kvZ, "u1", clock, "ok").count = Cardinality(UpdatesInHour)

\* the dedupe_keys that calls for user u have stored
KeysOf(u) == {d.key : d \in {x \in delivered : x.fp[1] = u}}

\* Redis strings without what calls for other users than u stored: their
\* fingerprints and, if keysToo, the dedupe_keys only they stored
StrOf(u, keysToo) ==
  {r \in kvStr : \/ r.key[1] = "dedup:fp" /\ r.key[2][1] = u
                 \/ r.key[1] = "dedup:key" /\ (keysToo => Some(r.key[2]) \in KeysOf(u))}

\* the ordered sets of user u: SimHashes and counters
ZOf(u) == {r \in kvZ : r.key[2] = u}

\* the call whose outcome is last', had Redis held the data of its user only
Alone(keysToo) ==
  evaluate([World EXCEPT !.str = StrOf(last'.event.user_id, keysToo),
                         !.z = ZOf(last'.event.user_id)],
           last'.event, last'.result.audit_id, clock, last'.mode, rulesFile,
           last'.ai, last'.k, last'.schedFault)

\* every call that stored something is in the history
StoresAreKnown ==
  /\ \A r \in kvStr : r.key[1] = "dedup:key" => \E d \in delivered : d.key = Some(r.key[2])
  /\ \A r \in kvStr : r.key[1] = "dedup:fp" => \E d \in delivered : d.fp = r.key[2]

\* C40 as stated: a call is answered as it is when Redis holds nothing that
\* calls for other users stored, their dedupe_keys included
C40_AsStated ==
  [][Called => /\ Alone(TRUE).result = last'.result
               /\ Alone(TRUE).dup = last'.dup]_vars

\* C40 amended: a call is answered as it is when Redis holds no fingerprint,
\* SimHash or counter that calls for other users stored; the dedupe_key
\* entries are shared by all users
C40_PerUserButKeys ==
  [][Called => /\ Alone(FALSE).result = last'.result
               /\ Alone(FALSE).dup = last'.dup]_vars

\* user u2's event, equal in all but the user_id to one delivered to u1, is
\* not held to be a duplicate
C40_Witness ==
  /\ last.made /\ ~last.threw /\ last.event.user_id = "u2"
  /\ last.dup = "PASS" /\ last.result.decision = "NOW"
  /\ \E d \in delivered :
       /\ d.fp[1] = "u1" /\ d.message = last.event.message /\ d.at < last.now
       /\ d.key = last.event.dedupe_key
  /\ \A d \in delivered : d.fp[1] = "u2" => d.at = last.now

\* the SimHashes of the event's user and event_type stored in the 600 s before now
StoredInWindow(e, now) ==
  {x \in ZMembers(kvZ, SimKey(e), now) : x.s >= now - 600000}

\* C32 as stated: an event is judged NEAR_DUPLICATE only against a SimHash
\* stored for its user_id and event_type within the preceding 600 seconds,
\* whatever was stored in between
C32_SlidingWindow ==
  [][Called /\ last'.dup = "NEAR_DUPLICATE"
     => \E x \in StoredInWindow(last'.event, clock) :
          hammingDistance(computeSimHash(last'.event.message), x.m) < 5]_vars

\* C33: a call that starts while a call for the same event is in flight,
\* nothing being stored yet, passes the dedup guard; and every call that
\* passed the guard returns, and returns NOW or LATER, also when the
\* fingerprint of its event has been stored by the other call meanwhile
C33_TwinsBothPass ==
  [][/\ (nEvals' = nEvals + 1 /\ inflight # {} /\ kvStr = {})
        => /\ inflight' # inflight
           /\ \A p \in inflight' \ inflight : p.stages.dedup = "PASS"
     /\ (inflight' # inflight /\ inflight' \subseteq inflight)
        => /\ ~last'.threw /\ last'.dup = "PASS"
           /\ last'.result.decision \in {"NOW", "LATER"}]_vars

\* the same event delivered twice within 3 ms, the second call returning
\* after the first had stored the fingerprint
C33_Witness ==
  /\ inflight = {} /\ last.made /\ ~last.threw /\ last.result.decision = "NOW"
  /\ \E d \in delivered :
       /\ d.fp = buildFingerprint(last.event) /\ d.message = last.event.message
       /\ d.priority = last.event.priority_hint
       /\ d.decision = "NOW" /\ d.at < last.now /\ last.now <= d.at + 3
       /\ redisGet(kvStr, FpKey(d.fp), d.at + 1, "ok")

\* entry i of the queue is what it was, but for its status
SameButStatus(i) ==
  [deferredQueue'[i] EXCEPT !.status = "any"] = [deferredQueue[i] EXCEPT !.status = "any"]

\* the step is a run of processDeferredQueue at the present clock
TimerRuns == nEnv' = nEnv + 1 /\ clock' = clock /\ "run" \in DOMAIN last' /\ last'.run = clock

\* C38: every step keeps the entries of the queue in place and, but for the
\* status, as they are; a status changes only from PENDING to DISPATCHED or
\* FAILED, in a run of processDeferredQueue at a clock not before the entry's
\* scheduleAt; forceOverride leaves the queue as it is
C38_QueueStatus ==
  [][/\ Len(deferredQueue') >= Len(deferredQueue)
     /\ \A i \in DOMAIN deferredQueue :
          /\ SameButStatus(i)
          /\ deferredQueue'[i].status # deferredQueue[i].status
             => /\ deferredQueue[i].status = "PENDING"
                /\ deferredQueue'[i].status \in {"DISPATCHED", "FAILED"}
                /\ TimerRuns
                /\ clock >= deferredQueue[i].scheduleAt
     /\ "override" \in DOMAIN last' => deferredQueue' = deferredQueue]_vars

\* after a run of the timer one entry is DISPATCHED and a later one, not yet
\* due, is PENDING; an operator override has been answered since
C38_Witness ==
  /\ Len(deferredQueue) = 2
  /\ deferredQueue[1].status = "DISPATCHED" /\ deferredQueue[1].scheduleAt <= clock
  /\ deferredQueue[2].status = "PENDING" /\ deferredQueue[2].scheduleAt > clock
  /\ "override" \in DOMAIN last

\* the rules of a readable file that are not disabled, in the order of the file
EnabledIn(file) == SelectSeq(Val(file), LAMBDA r : r.enabled # FALSE)

\* the step is a saveRule call that returned
Saved == "saved" \in DOMAIN last' /\ nEnv' = nEnv + 1 /\ last'.step = nEnv'

\* the step ends a reload interval
TimerFires == clock' # clock /\ clock' % 30000 = 0

\* C36: the cached rules change only to the whole list of the rules not
\* disabled in the file as it then is; after a saveRule call that returned,
\* the file holds the saved rule in place of any rule of its rule_id and the
\* cache is the list of the file; at the end of every reload interval the
\* cache is the list of the file, if it can be read; and a call that reaches
\* the rules stage is suppressed iff a SUPPRESS rule of that list matches
C36_SnapshotIsLatestLoad ==
  [][/\ cachedRules' # cachedRules
        => ~IsNull(rulesFile') /\ cachedRules' = EnabledIn(rulesFile')
     /\ Saved
        => /\ ~IsNull(rulesFile') /\ cachedRules' = EnabledIn(rulesFile')
           /\ \E i \in DOMAIN Val(rulesFile') : Val(rulesFile')[i] = last'.saved
           /\ \A i \in DOMAIN Val(rulesFile') :
                Val(rulesFile')[i].rule_id = last'.saved.rule_id
                => Val(rulesFile')[i] = last'.saved
           /\ (\E i \in DOMAIN cachedRules' : cachedRules'[i].rule_id = last'.saved.rule_id)
                = last'.saved.enabled
     /\ (TimerFires /\ ~IsNull(rulesFile)) => cachedRules' = EnabledIn(rulesFile)
     /\ AtRules
        => /\ cachedRules # <<>> => cachedRules' = cachedRules
           /\ (last'.path = "suppressed")
                = \E i \in DOMAIN cachedRules' :
                     /\ cachedRules'[i].action = "SUPPRESS"
                     /\ matchesCondition(last'.event, cachedRules'[i].condition)]_vars

\* the direct_message rule was saved with enabled = false over the enabled
\* one, and a direct_message evaluated afterwards was not suppressed
C36_Witness ==
  /\ rulesFile = Some(<<RuleOff, RuleSendNow>>) /\ cachedRules = <<RuleSendNow>>
  /\ last.made /\ ~last.threw /\ last.path = "boundary"
  /\ last.event.event_type = "direct_message"

\* the entries of freq:u1:total within the hour that ends now
CountNow == ZCount(kvZ, FreqKey("u1", "total"), clock - 3600000, clock, clock)

\* the non-CRITICAL events of u1 decided NOW within the hour that ends with this step
NowInHour ==
  {x \in delivered' : /\ x.decision = "NOW" /\ x.priority # "CRITICAL"
                       /\ x.fp[1] = "u1" /\ x.at > clock - 3600000}

=============================================================================
